---- MODULE Spec2Model ----
(***************************************************************************)
(* A model of godc, a rune-at-a-time reimplementation of dc(1).            *)
(*                                                                         *)
(* The model follows the build made of interpreter.go, the first package   *)
(* of operation.go (lines 1-577), the fixed-point Value of                 *)
(* unnamed/part_005, the NumberBuilder of unnamed/part_003 and the Stack   *)
(* of unnamed/part_001: operation.go reads Value.intval and calls          *)
(* UpdatePrecision and MatchPrecision, which only that Value has.          *)
(*                                                                         *)
(* Runes are one-character strings, rune slices are sequences of them.     *)
(* Go pointers to Value are addresses into heap, so that two stacks        *)
(* holding the same *Value see each other's in-place changes.              *)
(***************************************************************************)
EXTENDS Integers, Sequences, FiniteSets, TLC

(***************************************************************************)
(* Bounds of the checked inputs.                                           *)
(***************************************************************************)
\* deepest macro nesting of the generated quit programs
MaxDepth == 6
\* largest operand magnitude of the generated programs
MaxOperand == 3
\* longest text put between the brackets of a generated string literal
MaxText == 4
\* longest macro of the programs that compare a macro with top-level input
MaxMacro == 3
\* most fractional digits of the literals in a run of digit runes
MaxDigits == 2
\* the precisions set by the generated programs
Precisions == {0, 1}

(***************************************************************************)
(* Runes                                                                   *)
(***************************************************************************)
DigitRunes == <<"0", "1", "2", "3", "4", "5", "6", "7", "8", "9",
                "A", "B", "C", "D", "E", "F", "G", "H">>

isDigit(r) ==
    \/ r = "."
    \/ r = "_"
    \/ \E k \in 1..Len(DigitRunes) : DigitRunes[k] = r

DigitValue(r) == (CHOOSE k \in 1..Len(DigitRunes) : DigitRunes[k] = r) - 1

RegisterNames == {"a", "b", "c", "d", "e", "f", "g", "h", "i", "j", "k", "l", "m",
                  "n", "o", "p", "q", "r", "s", "t", "u", "v", "w", "x", "y", "z"}

isRegister(r) == r \in RegisterNames

(***************************************************************************)
(* math/big helpers                                                        *)
(***************************************************************************)
Abs(x) == IF x < 0 THEN -x ELSE x

RECURSIVE Pow(_, _)
\* big.Int.Exp(x, y, nil): x**y, and 1 when y <= 0
Pow(x, y) == IF y <= 0 THEN 1 ELSE x * Pow(x, y - 1)

\* big.Int.Div: Euclidean division, the remainder is never negative
EDiv(x, y) == IF y > 0 THEN x \div y ELSE -(x \div (-y))

\* big.Int.Quo: truncated division
TQuo(x, y) == IF (x < 0) = (y < 0) THEN Abs(x) \div Abs(y) ELSE -(Abs(x) \div Abs(y))

\* big.Int.Rem: the remainder of truncated division
TRem(x, y) == x - y * TQuo(x, y)

\* big.Int.Exp(x, y, m) for y > 0: x**y mod |m|, in 0..|m|-1; x**y when m = 0
ExpMod(x, y, m) == IF m = 0 THEN Pow(x, y) ELSE Pow(x, y) % Abs(m)

RECURSIVE SqrtSearch(_, _, _)
SqrtSearch(x, lo, hi) ==
    IF lo >= hi THEN lo
    ELSE LET mid == (lo + hi + 1) \div 2
         IN IF mid * mid <= x THEN SqrtSearch(x, mid, hi) ELSE SqrtSearch(x, lo, mid - 1)

\* big.Int.Sqrt: the largest r with r*r <= x
ISqrt(x) == SqrtSearch(x, 0, x)

(***************************************************************************)
(* Value (unnamed/part_005): a number is intval / 10^precision             *)
(***************************************************************************)
NumberValue(intval, precision) ==
    [Type |-> "VTNumber", intval |-> intval, precision |-> precision, strval |-> <<>>]

StringValue(strval) ==
    [Type |-> "VTString", intval |-> 0, precision |-> 0, strval |-> strval]

precisionToFactor(precision) == Pow(10, precision)

\* h is the heap; n and m are addresses of Values in it
UpdatePrecision(h, n, newprecision) ==
    IF h[n].Type # "VTNumber" THEN h
    ELSE IF newprecision > h[n].precision
         THEN [h EXCEPT ![n] = [@ EXCEPT
                 !.intval = @ * precisionToFactor(newprecision - h[n].precision),
                 !.precision = newprecision]]
         ELSE [h EXCEPT ![n] = [@ EXCEPT
                 !.intval = EDiv(@, precisionToFactor(h[n].precision - newprecision)),
                 !.precision = newprecision]]

MatchPrecision(h, n, m) ==
    IF h[n].precision > h[m].precision
    THEN UpdatePrecision(h, m, h[n].precision)
    ELSE UpdatePrecision(h, n, h[m].precision)

BothNumbers(h, n, m) == h[n].Type = "VTNumber" /\ h[m].Type = "VTNumber"

Add(h, n, m) ==
    IF ~BothNumbers(h, n, m) THEN [h |-> h, err |-> "ErrNotANumber"]
    ELSE LET h1 == MatchPrecision(h, n, m)
         IN [h |-> [h1 EXCEPT ![n].intval = h1[n].intval + h1[m].intval], err |-> "nil"]

Subtract(h, n, m) ==
    IF ~BothNumbers(h, n, m) THEN [h |-> h, err |-> "ErrNotANumber"]
    ELSE LET h1 == MatchPrecision(h, n, m)
         IN [h |-> [h1 EXCEPT ![n].intval = h1[n].intval - h1[m].intval], err |-> "nil"]

Multiply(h, n, m) ==
    IF ~BothNumbers(h, n, m) THEN [h |-> h, err |-> "ErrNotANumber"]
    ELSE LET h1 == [h EXCEPT ![n].precision = h[n].precision + h[m].precision]
         IN [h |-> [h1 EXCEPT ![n].intval = h1[n].intval * h1[m].intval], err |-> "nil"]

Divide(h, n, m) ==
    IF ~BothNumbers(h, n, m) THEN [h |-> h, err |-> "ErrNotANumber"]
    ELSE IF h[m].intval = 0 THEN [h |-> h, err |-> "ErrDivideByZero"]
    ELSE LET h1 == MatchPrecision(h, n, m)
             h2 == UpdatePrecision(h1, n, h1[n].precision + h1[m].precision)
             h3 == [h2 EXCEPT ![n].intval = EDiv(h2[n].intval, h2[m].intval)]
         IN [h |-> [h3 EXCEPT ![n].precision = h3[n].precision - h3[m].precision],
             err |-> "nil"]

\* the quotient is left in n and the remainder in m
QuotientRemainder(h, n, m) ==
    IF ~BothNumbers(h, n, m) THEN [h |-> h, err |-> "ErrNotANumber"]
    ELSE IF h[m].intval = 0 THEN [h |-> h, err |-> "ErrDivideByZero"]
    ELSE LET h1 == MatchPrecision(h, n, m)
             q == TQuo(h1[n].intval, h1[m].intval)
             r == TRem(h1[n].intval, h1[m].intval)
             h2 == [h1 EXCEPT ![n].intval = q]
         IN [h |-> [h2 EXCEPT ![m].intval = r], err |-> "nil"]

Exponent(h, n, m) ==
    IF ~BothNumbers(h, n, m) THEN [h |-> h, err |-> "ErrNotANumber"]
    ELSE LET h1 == UpdatePrecision(h, m, 0)
         IN IF h1[m].intval <= 0 THEN [h |-> h1, err |-> "ErrWholeExponentsOnly"]
            ELSE LET h2 == [h1 EXCEPT ![n].intval = Pow(h1[n].intval, h1[m].intval)]
                     afterPower == h2[n].precision * (h2[m].intval - 1)
                 IN [h |-> [h2 EXCEPT ![n].intval =
                                EDiv(@, precisionToFactor(afterPower))],
                     err |-> "nil"]

\* the receiver n is raised to e modulo m
ModExponent(h, n, e, m) ==
    IF ~(BothNumbers(h, n, m) /\ h[e].Type = "VTNumber")
    THEN [h |-> h, err |-> "ErrNotANumber"]
    ELSE LET h1 == UpdatePrecision(UpdatePrecision(UpdatePrecision(h, n, 0), e, 0), m, 0)
         IN IF h1[e].intval <= 0 THEN [h |-> h1, err |-> "ErrWholeExponentsOnly"]
            ELSE [h |-> [h1 EXCEPT ![n].intval =
                            ExpMod(h1[n].intval, h1[e].intval, h1[m].intval)],
                  err |-> "nil"]

Sqrt(h, n) ==
    IF h[n].Type # "VTNumber" THEN [h |-> h, err |-> "ErrNotANumber"]
    ELSE IF h[n].intval < 0 THEN [h |-> h, err |-> "ErrNoImaginaryNumbers"]
    ELSE LET h1 == UpdatePrecision(h, n, h[n].precision * 2)
         IN [h |-> [h1 EXCEPT ![n] = [@ EXCEPT !.intval = ISqrt(@),
                                                !.precision = TQuo(@, 2)]],
             err |-> "nil"]

(***************************************************************************)
(* Rendering (unnamed/part_005 49-131)                                     *)
(***************************************************************************)
\* the digits big.Int.Text writes
LowerDigits == <<"0", "1", "2", "3", "4", "5", "6", "7", "8", "9",
                 "a", "b", "c", "d", "e", "f">>

RECURSIVE NatText(_, _)
\* big.Int.Text of a non-negative integer
NatText(x, radix) ==
    IF x < radix THEN <<LowerDigits[x + 1]>>
    ELSE Append(NatText(x \div radix, radix), LowerDigits[(x % radix) + 1])

\* a variant of big.Int.Text that loses the sign
IntTextUnsigned(x, radix) == NatText(Abs(x), radix)

\* big.Int.Text(radix)
IntText(x, radix) == IF x < 0 THEN <<"-">> \o NatText(-x, radix) ELSE NatText(x, radix)

\* strings.ToUpper
ToUpper(s) ==
    [k \in 1..Len(s) |->
        IF \E d \in 11..16 : LowerDigits[d] = s[k]
        THEN DigitRunes[CHOOSE d \in 11..16 : LowerDigits[d] = s[k]]
        ELSE s[k]]

\* fmt.Sprintf(`%0Ns`, s): s padded on the left with zeroes to n runes
ZeroPad(s, n) == [k \in 1..(IF n > Len(s) THEN n - Len(s) ELSE 0) |-> "0"] \o s

\* Value.Text(radix) of the Value v
Text(v, radix) ==
    IF v.Type = "VTString" THEN v.strval
    ELSE IF v.precision = 0 THEN ToUpper(IntText(v.intval, radix))
    ELSE LET factor == precisionToFactor(v.precision)
             val == Abs(v.intval)
             intVal == EDiv(val, factor)
             fracVal == EDiv((val - intVal * factor) * Pow(radix, v.precision), factor)
             intStr == NatText(intVal, radix)
             fracStr0 == NatText(fracVal, radix)
             fracStr == IF Len(fracStr0) > v.precision
                        THEN SubSeq(fracStr0, 1, v.precision)
                        ELSE fracStr0
         IN ToUpper((IF v.intval < 0 THEN <<"-">> ELSE <<>>)
                    \o intStr \o <<".">> \o ZeroPad(fracStr, v.precision))

\* the receiver v once Value.Text has returned: val is the pointer n.intval,
\* and val.Abs(val) stores the magnitude in it
TextReceiver(v, radix) ==
    IF v.Type = "VTString" \/ v.precision = 0 THEN v
    ELSE [v EXCEPT !.intval = Abs(@)]

\* Value.Format with the verb v, which fmt.Fprint and fmt.Fprintln use
Format(v) == Text(v, 10)

(***************************************************************************)
(* Stack (unnamed/part_001): a slice of *Value; 0 is the nil pointer       *)
(***************************************************************************)
Push(s, n) == Append(s, n)

Peek(s) == IF Len(s) = 0 THEN 0 ELSE s[Len(s)]

\* the stack that Pop leaves; Pop returns Peek(s)
Pop(s) == IF Len(s) = 0 THEN s ELSE SubSeq(s, 1, Len(s) - 1)

(***************************************************************************)
(* The interpreter state st is a record of the Interpreter's fields        *)
(* (interpreter.go 19-30), the heap of Values, and the package-level       *)
(* operation objects of operation.go, which keep state between runes.      *)
(* An Operate call returns the new state, the pair (finished, err) and,    *)
(* when it is about to call InterpretMacro, the macro to run.              *)
(***************************************************************************)
Done(st, err) ==
    [st |-> st, finished |-> TRUE, err |-> err, call |-> FALSE, macro |-> <<>>]

NotDone(st, err) ==
    [st |-> st, finished |-> FALSE, err |-> err, call |-> FALSE, macro |-> <<>>]

\* the operation has reached its call of i.InterpretMacro(macro)
RunMacro(st, macro) ==
    [st |-> st, finished |-> TRUE, err |-> "nil", call |-> TRUE, macro |-> macro]

\* a new Value on the heap; its address is Len(st.heap) + 1
Alloc(st, v) == [st EXCEPT !.heap = Append(@, v)]

\* Value.Int: IntVal truncates the Value in place, then its integer is read
IntVal(h, n) == UpdatePrecision(h, n, 0)

ensureNumeric(h, vals) ==
    IF \E k \in 1..Len(vals) : h[vals[k]].Type # "VTNumber"
    THEN "ErrValueNotNumeric"
    ELSE "nil"

(***************************************************************************)
(* NumberBuilder (unnamed/part_003)                                        *)
(***************************************************************************)
RECURSIVE ParseDigits(_, _, _)
ParseDigits(s, radix, acc) ==
    IF s = <<>> THEN acc
    ELSE ParseDigits(Tail(s), radix, acc * radix + DigitValue(Head(s)))

\* big.Int.SetString(s, radix) reports ok
SetStringOk(s, radix) == s # <<>> /\ \A k \in 1..Len(s) : DigitValue(s[k]) < radix

SetString(s, radix) == ParseDigits(s, radix, 0)

\* what Flush pushes and what it leaves of the builder once the text is parsed
FlushPush(st, num, precision) ==
    LET n == st.NumberBuilderOperation
        signed == IF n.sign THEN -num ELSE num
        s1 == Alloc(st, NumberValue(signed, precision))
        v == Len(s1.heap)
    IN [s1 EXCEPT !.heap = UpdatePrecision(@, v, st.Precision),
                  !.Stack = Push(@, v),
                  !.NumberBuilderOperation =
                      [buff |-> <<>>, sign |-> FALSE, dotSeen |-> FALSE, State |-> FALSE]]

Flush(st) ==
    LET n == st.NumberBuilderOperation
        str == n.buff
        radix == st.InputRadix
    IN IF n.dotSeen
       THEN LET dot == CHOOSE k \in 1..Len(str) : str[k] = "."
                int == SubSeq(str, 1, dot - 1)
                fracDigits == SubSeq(str, dot + 1, Len(str))
                prec == Len(fracDigits)
                num == IF Len(int) > 0 THEN SetString(int, radix) ELSE 0
                frac0 == SetString(fracDigits, radix)
                frac1 == IF st.Precision > prec
                         THEN frac0 * Pow(radix, st.Precision - prec)
                         ELSE IF prec > st.Precision
                              THEN EDiv(frac0, Pow(radix, prec - st.Precision))
                              ELSE frac0
                frac == EDiv(frac1 * precisionToFactor(st.Precision),
                             Pow(radix, st.Precision))
            IN IF Len(int) > 0 /\ ~SetStringOk(int, radix)
               THEN [st |-> st, err |-> "unable to unmarshal"]
               ELSE IF prec > 0 /\ ~SetStringOk(fracDigits, radix)
               THEN [st |-> st, err |-> "unable to unmarshal"]
               ELSE IF prec > 0
               THEN [st |-> FlushPush(st, num * precisionToFactor(st.Precision) + frac,
                                      st.Precision),
                     err |-> "nil"]
               ELSE [st |-> FlushPush(st, num, 0), err |-> "nil"]
       ELSE IF ~SetStringOk(str, radix)
            THEN [st |-> st, err |-> "unable to unmarshal"]
            ELSE [st |-> FlushPush(st, SetString(str, radix), 0), err |-> "nil"]

\* a variant that asks for the rune again without having finished
FlushAndContinueNotDone(st) ==
    LET f == Flush(st)
    IN IF f.err # "nil" THEN Done(f.st, f.err)
       ELSE NotDone(f.st, "ErrContinueProcessingRune")

\* the three places where Operate flushes and asks for the rune again
FlushAndContinue(st) ==
    LET f == Flush(st)
    IN IF f.err # "nil" THEN Done(f.st, f.err)
       ELSE Done(f.st, "ErrContinueProcessingRune")

NumberBuilderOperate(st, r) ==
    LET n == st.NumberBuilderOperation
        hungry == [st EXCEPT !.NumberBuilderOperation.State = TRUE]
    IN IF ~isDigit(r) THEN FlushAndContinue(st)
       ELSE IF n.State /\ r = "_" THEN FlushAndContinue(st)
       ELSE IF r = "_"
            THEN NotDone([hungry EXCEPT !.NumberBuilderOperation.sign = TRUE], "nil")
       ELSE IF r = "." /\ n.dotSeen THEN FlushAndContinue(hungry)
       ELSE NotDone([hungry EXCEPT
                       !.NumberBuilderOperation.dotSeen = (@ \/ r = "."),
                       !.NumberBuilderOperation.buff = Append(@, r)], "nil")

(***************************************************************************)
(* StringBuilder and the comment operator (operation.go 392-432)           *)
(***************************************************************************)
StringBuilderOperate(st, r) ==
    LET sb == st.StringBuilderOperation
    IN IF r = "["
       THEN NotDone([st EXCEPT !.StringBuilderOperation =
                        [OperationState |-> TRUE, strval |-> <<>>]], "nil")
       ELSE IF r = "]"
       THEN LET s1 == Alloc(st, StringValue(sb.strval))
            IN Done([s1 EXCEPT !.StringBuilderOperation.OperationState = FALSE,
                               !.Stack = Push(@, Len(s1.heap))], "nil")
       ELSE IF ~sb.OperationState THEN Done(st, "nil")
       ELSE NotDone([st EXCEPT !.StringBuilderOperation.strval = Append(@, r)], "nil")

CommentOperate(st, r) == IF r = "\n" THEN Done(st, "nil") ELSE NotDone(st, "nil")

(***************************************************************************)
(* Unary and binary operations (operation.go 102-137, 200-319)             *)
(* Each function takes the heap and the operands' addresses and returns    *)
(* the heap, the addresses to push and the error.                          *)
(***************************************************************************)
NotNumeric(h) == [h |-> h, nums |-> <<>>, err |-> "ErrValueNotNumeric"]

AdditionOperation(h, left, right) ==
    IF ensureNumeric(h, <<left, right>>) # "nil" THEN NotNumeric(h)
    ELSE LET res == Add(h, left, right)
         IN [h |-> res.h, nums |-> <<left>>, err |-> res.err]

SubtractionOperation(h, left, right) ==
    IF ensureNumeric(h, <<left, right>>) # "nil" THEN NotNumeric(h)
    ELSE LET res == Subtract(h, left, right)
         IN [h |-> res.h, nums |-> <<left>>, err |-> res.err]

MultiplicationOperation(h, left, right) ==
    IF ensureNumeric(h, <<left, right>>) # "nil" THEN NotNumeric(h)
    ELSE LET res == Multiply(h, left, right)
         IN [h |-> res.h, nums |-> <<left>>, err |-> res.err]

DivisionOperation(h, left, right) ==
    IF ensureNumeric(h, <<left, right>>) # "nil" THEN NotNumeric(h)
    ELSE LET res == Divide(h, left, right)
         IN [h |-> res.h, nums |-> <<left>>, err |-> res.err]

\* QuotientRemainder returns (n, m): the remainder is the right operand's Value
ModuloOperation(h, left, right) ==
    IF ensureNumeric(h, <<left, right>>) # "nil" THEN NotNumeric(h)
    ELSE LET res == QuotientRemainder(h, left, right)
         IN [h |-> res.h, nums |-> <<right>>, err |-> res.err]

\* a variant of ~ that pushes the quotient first, the remainder on top
QuotientRemainderOperationRemainderOnTop(h, left, right) ==
    IF ensureNumeric(h, <<left, right>>) # "nil" THEN NotNumeric(h)
    ELSE LET res == QuotientRemainder(h, left, right)
         IN [h |-> res.h, nums |-> <<left, right>>, err |-> res.err]

\* pushes []*Value{r, q}: the remainder first, the quotient on top
QuotientRemainderOperation(h, left, right) ==
    IF ensureNumeric(h, <<left, right>>) # "nil" THEN NotNumeric(h)
    ELSE LET res == QuotientRemainder(h, left, right)
         IN [h |-> res.h, nums |-> <<right, left>>, err |-> res.err]

ExponentOperation(h, left, right) ==
    IF ensureNumeric(h, <<left, right>>) # "nil" THEN NotNumeric(h)
    ELSE LET res == Exponent(h, left, right)
         IN [h |-> res.h, nums |-> <<left>>, err |-> res.err]

ReverseOperation(h, left, right) == [h |-> h, nums |-> <<right, left>>, err |-> "nil"]

SqrtOperation(h, val) ==
    LET res == Sqrt(h, val)
    IN [h |-> res.h, nums |-> <<val>>, err |-> res.err]

\* a variant of d that pushes the same pointer twice
DuplicationOperationShared(h, val) == [h |-> h, nums |-> <<val, val>>, err |-> "nil"]

\* val.Dup() is a new Value holding a copy of val's fields
DuplicationOperation(h, val) ==
    [h |-> Append(h, h[val]), nums |-> <<val, Len(h) + 1>>, err |-> "nil"]

BinaryOperations ==
    {"AdditionOperation", "SubtractionOperation", "MultiplicationOperation",
     "DivisionOperation", "ModuloOperation", "QuotientRemainderOperation",
     "ExponentOperation", "ReverseOperation"}

UnaryOperations == {"SqrtOperation", "DuplicationOperation"}

makeUnaryOperation(st, op) ==
    IF Len(st.Stack) < 1 THEN Done(st, "ErrStackTooShort")
    ELSE LET val == Peek(st.Stack)
             rest == Pop(st.Stack)
             res == IF op = "SqrtOperation" THEN SqrtOperation(st.heap, val)
                    ELSE DuplicationOperation(st.heap, val)
         IN IF res.err # "nil"
            THEN Done([st EXCEPT !.heap = res.h, !.Stack = Push(rest, val)], res.err)
            ELSE Done([st EXCEPT !.heap = res.h, !.Stack = rest \o res.nums], "nil")

makeBinaryOperation(st, op) ==
    IF Len(st.Stack) < 2 THEN Done(st, "ErrStackTooShort")
    ELSE LET right == Peek(st.Stack)
             left == Peek(Pop(st.Stack))
             rest == Pop(Pop(st.Stack))
             h == st.heap
             res == CASE op = "AdditionOperation" -> AdditionOperation(h, left, right)
                      [] op = "SubtractionOperation" -> SubtractionOperation(h, left, right)
                      [] op = "MultiplicationOperation" ->
                             MultiplicationOperation(h, left, right)
                      [] op = "DivisionOperation" -> DivisionOperation(h, left, right)
                      [] op = "ModuloOperation" -> ModuloOperation(h, left, right)
                      [] op = "QuotientRemainderOperation" ->
                             QuotientRemainderOperation(h, left, right)
                      [] op = "ExponentOperation" -> ExponentOperation(h, left, right)
                      [] op = "ReverseOperation" -> ReverseOperation(h, left, right)
         IN IF res.err # "nil"
            THEN Done([st EXCEPT !.heap = res.h,
                                 !.Stack = Push(Push(rest, left), right)], res.err)
            ELSE Done([st EXCEPT !.heap = res.h, !.Stack = rest \o res.nums], "nil")

(***************************************************************************)
(* Operations on the interpreter (operation.go 139-198, 291-303, 366-390)  *)
(***************************************************************************)
\* a variant of q that asks for two frames
QuitOperationTwoLevels(st) == Done([st EXCEPT !.QuitLevel = 2], "ErrExitRequested")

QuitOperation(st) == Done([st EXCEPT !.QuitLevel = 1], "ErrExitRequested")

MacroQuitOperation(st) ==
    LET top == Peek(st.Stack)
    IN IF Len(st.Stack) > 0 /\ st.heap[top].Type = "VTNumber"
       THEN LET h == IntVal(st.heap, top)
            IN Done([st EXCEPT !.heap = h, !.Stack = Pop(@),
                               !.QuitLevel = h[top].intval], "ErrExitRequested")
       ELSE Done([st EXCEPT !.QuitLevel = 0], "ErrExitRequested")

\* what print and println write for the Value at n: a copy of it, brought to
\* the interpreter's precision, is handed to fmt, which calls its Format
Rendered(st, n) == Format(UpdatePrecision(st.heap, n, st.Precision)[n])

\* Peek returns nil on an empty stack, and nil.Dup() dereferences it
PrintOperation(st) ==
    IF Peek(st.Stack) = 0 THEN Done(st, "panic")
    ELSE Done([st EXCEPT !.output = @ \o Rendered(st, Peek(st.Stack)) \o <<"\n">>], "nil")

PopAndPrintOperation(st) ==
    IF Len(st.Stack) < 1 THEN Done(st, "ErrStackTooShort")
    ELSE Done([st EXCEPT !.output = @ \o Rendered(st, Peek(st.Stack)),
                         !.Stack = Pop(@)], "nil")

RECURSIVE PrintedStack(_, _)
\* the deferred printlns run last in, first out: the lines of the k lowest
\* entries, the highest of them first
PrintedStack(st, k) ==
    IF k = 0 THEN <<>>
    ELSE Rendered(st, st.Stack[k]) \o <<"\n">> \o PrintedStack(st, k - 1)

\* a variant of f whose lines run from the bottom of the stack to the top
PrintStackOperationBottomUp(st) ==
    Done([st EXCEPT !.output =
              @ \o PrintedStack([st EXCEPT !.Stack =
                                     [k \in 1..Len(@) |-> @[Len(@) + 1 - k]]],
                                Len(st.Stack))], "nil")

PrintStackOperation(st) ==
    Done([st EXCEPT !.output = @ \o PrintedStack(st, Len(st.Stack))], "nil")

PushLengthOperation(st) ==
    LET s1 == Alloc(st, NumberValue(Len(st.Stack), 0))
    IN Done([s1 EXCEPT !.Stack = Push(@, Len(s1.heap))], "nil")

ClearStackOperation(st) == Done([st EXCEPT !.Stack = <<>>], "nil")

\* a variant of | that takes the top of the stack as the exponent
ModExponentOperationTopExponent(st) ==
    IF Len(st.Stack) < 3 THEN Done(st, "ErrStackTooShort")
    ELSE LET e == Peek(st.Stack)
             m == Peek(Pop(st.Stack))
             n == Peek(Pop(Pop(st.Stack)))
             rest == Pop(Pop(Pop(st.Stack)))
             res == ModExponent(st.heap, n, e, m)
         IN IF res.err # "nil"
            THEN Done([st EXCEPT !.heap = res.h, !.Stack = rest], res.err)
            ELSE Done([st EXCEPT !.heap = res.h, !.Stack = Push(rest, n)], "nil")

ModExponentOperation(st) ==
    IF Len(st.Stack) < 3 THEN Done(st, "ErrStackTooShort")
    ELSE LET e == Peek(st.Stack)
             m == Peek(Pop(st.Stack))
             n == Peek(Pop(Pop(st.Stack)))
             rest == Pop(Pop(Pop(st.Stack)))
             \* n.ModExponent(m, e): the method's parameters are (e, m)
             res == ModExponent(st.heap, n, m, e)
         IN IF res.err # "nil"
            THEN Done([st EXCEPT !.heap = res.h, !.Stack = rest], res.err)
            ELSE Done([st EXCEPT !.heap = res.h, !.Stack = Push(rest, n)], "nil")

SetPrecisionOperation(st) ==
    IF Len(st.Stack) < 1 THEN Done(st, "ErrStackTooShort")
    ELSE LET p == Peek(st.Stack)
             s1 == [st EXCEPT !.Stack = Pop(@)]
         IN IF ensureNumeric(st.heap, <<p>>) # "nil"
            THEN Done(s1, "ErrValueNotNumeric")
            ELSE LET h == IntVal(st.heap, p)
                 IN Done([s1 EXCEPT !.heap = h, !.Precision = h[p].intval], "nil")

GetPrecisionOperation(st) ==
    LET s1 == Alloc(st, NumberValue(st.Precision, 0))
    IN Done([s1 EXCEPT !.Stack = Push(@, Len(s1.heap))], "nil")

\* a variant of i that takes any number as the radix
SetInputRadixOperationAny(st) ==
    IF Len(st.Stack) < 1 THEN Done(st, "ErrStackTooShort")
    ELSE LET p == Peek(st.Stack)
             s1 == [st EXCEPT !.Stack = Pop(@)]
         IN IF ensureNumeric(st.heap, <<p>>) # "nil"
            THEN Done(st, "ErrValueNotNumeric")
            ELSE LET h == IntVal(st.heap, p)
                 IN Done([s1 EXCEPT !.heap = h, !.InputRadix = h[p].intval], "nil")

\* i and o: pop a number and set the radix, constrained to 2..16; an error
\* leaves the main stack as it was
SetInputRadixOperation(st) ==
    IF Len(st.Stack) < 1 THEN Done(st, "ErrStackTooShort")
    ELSE LET p == Peek(st.Stack)
             s1 == [st EXCEPT !.Stack = Pop(@)]
         IN IF ensureNumeric(st.heap, <<p>>) # "nil"
            THEN Done(st, "ErrValueNotNumeric")
            ELSE LET h == IntVal(st.heap, p)
                 IN IF h[p].intval \in 2..16
                    THEN Done([s1 EXCEPT !.heap = h, !.InputRadix = h[p].intval], "nil")
                    ELSE Done([s1 EXCEPT !.heap = h], "nil")

SetOutputRadixOperation(st) ==
    IF Len(st.Stack) < 1 THEN Done(st, "ErrStackTooShort")
    ELSE LET p == Peek(st.Stack)
             s1 == [st EXCEPT !.Stack = Pop(@)]
         IN IF ensureNumeric(st.heap, <<p>>) # "nil"
            THEN Done(st, "ErrValueNotNumeric")
            ELSE LET h == IntVal(st.heap, p)
                 IN IF h[p].intval \in 2..16
                    THEN Done([s1 EXCEPT !.heap = h, !.OutputRadix = h[p].intval], "nil")
                    ELSE Done([s1 EXCEPT !.heap = h], "nil")

\* I and O: push the current setting as a number
GetInputRadixOperation(st) ==
    LET s1 == Alloc(st, NumberValue(st.InputRadix, 0))
    IN Done([s1 EXCEPT !.Stack = Push(@, Len(s1.heap))], "nil")

GetOutputRadixOperation(st) ==
    LET s1 == Alloc(st, NumberValue(st.OutputRadix, 0))
    IN Done([s1 EXCEPT !.Stack = Push(@, Len(s1.heap))], "nil")

NotImplementedOperation(st) == Done(st, "ErrNotImplemented")

ExecuteMacroOperation(st) ==
    IF Len(st.Stack) < 1 THEN Done(st, "ErrStackTooShort")
    ELSE LET val == Peek(st.Stack)
         IN IF st.heap[val].Type # "VTString" THEN Done(st, "nil")
            ELSE RunMacro([st EXCEPT !.Stack = Pop(@)], st.heap[val].strval)

(***************************************************************************)
(* Register operations (operation.go 65-90, 321-364)                       *)
(***************************************************************************)
RegisterOperations ==
    {"MoveToRegisterOperation", "MoveFromRegisterOperation",
     "MoveToRegisterStackOperation", "MoveFromRegisterStackOperation"}

\* a variant of s that does not clear the register
MoveToRegisterOperationKeeps(st, register) ==
    IF Len(st.Stack) < 1 THEN Done(st, "ErrStackTooShort")
    ELSE Done([st EXCEPT !.Registers[register] = Push(@, Peek(st.Stack)),
                         !.Stack = Pop(@)], "nil")

MoveToRegisterOperation(st, register) ==
    IF Len(st.Stack) < 1 THEN Done(st, "ErrStackTooShort")
    ELSE Done([st EXCEPT !.Registers[register] = Push(<<>>, Peek(st.Stack)),
                         !.Stack = Pop(@)], "nil")

\* pushes register.Peek(), the pointer the register holds
MoveFromRegisterOperation(st, register) ==
    IF Len(st.Registers[register]) < 1 THEN Done(st, "ErrStackTooShort")
    ELSE Done([st EXCEPT !.Stack = Push(@, Peek(st.Registers[register]))], "nil")

MoveToRegisterStackOperation(st, register) ==
    IF Len(st.Stack) < 1 THEN Done(st, "ErrStackTooShort")
    ELSE Done([st EXCEPT !.Registers[register] = Push(@, Peek(st.Stack)),
                         !.Stack = Pop(@)], "nil")

\* a variant of L that reads the register with Peek
MoveFromRegisterStackOperationPeeks(st, register) ==
    IF Len(st.Registers[register]) < 1 THEN Done(st, "ErrStackTooShort")
    ELSE Done([st EXCEPT !.Stack = Push(@, Peek(st.Registers[register]))], "nil")

MoveFromRegisterStackOperation(st, register) ==
    IF Len(st.Registers[register]) < 1 THEN Done(st, "ErrStackTooShort")
    ELSE Done([st EXCEPT !.Stack = Push(@, Peek(st.Registers[register])),
                         !.Registers[register] = Pop(@)], "nil")

\* a variant that hands a rune that is no register name back to the dispatcher
RegisterOperationOperateHandsBack(st, op, register) ==
    IF ~st.State[op] THEN NotDone([st EXCEPT !.State[op] = TRUE], "nil")
    ELSE LET s1 == [st EXCEPT !.State[op] = FALSE]
         IN IF ~isRegister(register) THEN Done(s1, "ErrContinueProcessingRune")
            ELSE CASE op = "MoveToRegisterOperation" ->
                        MoveToRegisterOperation(s1, register)
                   [] op = "MoveFromRegisterOperation" ->
                        MoveFromRegisterOperation(s1, register)
                   [] op = "MoveToRegisterStackOperation" ->
                        MoveToRegisterStackOperation(s1, register)
                   [] op = "MoveFromRegisterStackOperation" ->
                        MoveFromRegisterStackOperation(s1, register)

RegisterOperationOperate(st, op, register) ==
    IF ~st.State[op] THEN NotDone([st EXCEPT !.State[op] = TRUE], "nil")
    ELSE LET s1 == [st EXCEPT !.State[op] = FALSE]
         IN IF ~isRegister(register) THEN Done(s1, "ErrNotARegisterName")
            ELSE CASE op = "MoveToRegisterOperation" ->
                        MoveToRegisterOperation(s1, register)
                   [] op = "MoveFromRegisterOperation" ->
                        MoveFromRegisterOperation(s1, register)
                   [] op = "MoveToRegisterStackOperation" ->
                        MoveToRegisterStackOperation(s1, register)
                   [] op = "MoveFromRegisterStackOperation" ->
                        MoveFromRegisterStackOperation(s1, register)

(***************************************************************************)
(* Conditional macros (operation.go 450-577)                               *)
(***************************************************************************)
MacroOperations ==
    {"ExecuteMacroIfGTOperation", "ExecuteMacroIfLTOperation", "ExecuteMacroIfEqOperation"}

\* the Predicate closures: MatchPrecision changes an operand, then Cmp
Predicate(h, op, left, right) ==
    LET h1 == MatchPrecision(h, left, right)
        l == h1[left].intval
        r == h1[right].intval
    IN [h |-> h1,
        fires |-> CASE op = "ExecuteMacroIfGTOperation" -> l > r
                    [] op = "ExecuteMacroIfLTOperation" -> l < r
                    [] op = "ExecuteMacroIfEqOperation" -> l = r]

negate(p) == [p EXCEPT !.fires = ~@]

\* a variant of MacroOperationRun that reads the macro with reg.Peek()
MacroOperationRunPeeks(st, pred, register) ==
    IF ~isRegister(register) THEN Done(st, "ErrNotARegisterName")
    ELSE IF Len(st.Stack) < 2 THEN Done(st, "ErrStackTooShort")
    ELSE LET reg == st.Registers[register]
         IN IF Len(reg) < 1 THEN Done(st, "ErrStackTooShort")
            ELSE IF st.heap[Peek(reg)].Type # "VTString" THEN Done(st, "ErrValueNotString")
            ELSE LET left == Peek(st.Stack)
                     right == Peek(Pop(st.Stack))
                     s1 == [st EXCEPT !.Stack = Pop(Pop(@))]
                 IN IF ~BothNumbers(st.heap, left, right)
                    THEN Done(s1, "ErrValueNotNumeric")
                    ELSE IF pred.op = "nil" THEN Done(s1, "panic")
                    ELSE LET p0 == Predicate(st.heap, pred.op, left, right)
                             p == IF pred.negated THEN negate(p0) ELSE p0
                             s2 == [s1 EXCEPT !.heap = p.h]
                         IN IF ~p.fires THEN Done(s2, "nil")
                            ELSE RunMacro([s2 EXCEPT !.CurrentOperation = "nil"],
                                          st.heap[Peek(reg)].strval)

\* MacroOperation.Operate once it is hungry, up to its return or to its call
\* of InterpretMacro; pred is [op, negated], op "nil" for a nil Predicate
MacroOperationRun(st, pred, register) ==
    IF ~isRegister(register) THEN Done(st, "ErrNotARegisterName")
    ELSE IF Len(st.Stack) < 2 THEN Done(st, "ErrStackTooShort")
    ELSE LET reg == st.Registers[register]
         IN IF Len(reg) < 1 THEN Done(st, "ErrStackTooShort")
            ELSE IF st.heap[Peek(reg)].Type # "VTString" THEN Done(st, "ErrValueNotString")
            ELSE LET left == Peek(st.Stack)
                     right == Peek(Pop(st.Stack))
                     s1 == [st EXCEPT !.Stack = Pop(Pop(@))]
                 IN IF ~BothNumbers(st.heap, left, right)
                    THEN Done(s1, "ErrValueNotNumeric")
                    ELSE IF pred.op = "nil" THEN Done(s1, "panic")
                    ELSE LET p0 == Predicate(st.heap, pred.op, left, right)
                             p == IF pred.negated THEN negate(p0) ELSE p0
                             s2 == [s1 EXCEPT !.heap = p.h]
                         IN IF ~p.fires THEN Done(s2, "nil")
                            ELSE RunMacro([s2 EXCEPT !.Registers[register] = Pop(@),
                                                     !.CurrentOperation = "nil"],
                                          st.heap[Peek(reg)].strval)

\* the deferred so.State = OSNotHungry runs when Operate returns: at once
\* unless InterpretMacro is called, and then when the macro has returned
MacroOperationOperate(st, op, register) ==
    IF ~st.State[op] THEN NotDone([st EXCEPT !.State[op] = TRUE], "nil")
    ELSE LET res == MacroOperationRun(st, [op |-> op, negated |-> FALSE], register)
         IN IF res.call THEN res ELSE [res EXCEPT !.st.State[op] = FALSE]

NoOp == [State |-> FALSE, Predicate |-> "none"]

NegatedOperation(r) ==
    CASE r = "<" -> "ExecuteMacroIfLTOperation"
      [] r = ">" -> "ExecuteMacroIfGTOperation"
      [] r = "=" -> "ExecuteMacroIfEqOperation"
      [] OTHER -> "nil"

\* Op is NoOp for a nil so.Op, else the State and Predicate of *so.Op
NegativeMacroOperationOperate(st, r) ==
    LET so == st.ExecuteMacroNegativeOperation
        created == [State |-> FALSE, Predicate |-> NegatedOperation(r)]
        Op == IF so.Op = NoOp THEN created ELSE so.Op
    IN IF ~so.State
       THEN NotDone([st EXCEPT !.ExecuteMacroNegativeOperation.State = TRUE], "nil")
       ELSE IF so.Op = NoOp /\ created.Predicate = "nil"
       THEN NotDone([st EXCEPT !.ExecuteMacroNegativeOperation.Op = created],
                    "ErrNotImplemented")
       ELSE IF ~Op.State
       THEN NotDone([st EXCEPT !.ExecuteMacroNegativeOperation =
                        [State |-> TRUE, Op |-> [Op EXCEPT !.State = TRUE]]], "nil")
       ELSE LET s1 == [st EXCEPT !.ExecuteMacroNegativeOperation.Op = Op]
                res == MacroOperationRun(s1, [op |-> Op.Predicate, negated |-> TRUE], r)
            IN IF res.call THEN res
               ELSE [res EXCEPT !.st.ExecuteMacroNegativeOperation =
                                    [State |-> FALSE, Op |-> NoOp]]

(***************************************************************************)
(* The dispatcher (interpreter.go 34-177)                                  *)
(***************************************************************************)
\* i.Operations; "none" for a rune that is not a key, as K is.  The raw
\* print P is left out of the table.
Operations(r) ==
    CASE isDigit(r) -> "NumberBuilderOperation"
      [] r = "q" -> "QuitOperation"
      [] r = "p" -> "PrintOperation"
      [] r = "n" -> "PopAndPrintOperation"
      [] r = "f" -> "PrintStackOperation"
      [] r = "i" -> "SetInputRadixOperation"
      [] r = "o" -> "SetOutputRadixOperation"
      [] r = "I" -> "GetInputRadixOperation"
      [] r = "O" -> "GetOutputRadixOperation"
      [] r = "+" -> "AdditionOperation"
      [] r = "-" -> "SubtractionOperation"
      [] r = "*" -> "MultiplicationOperation"
      [] r = "/" -> "DivisionOperation"
      [] r = "%" -> "ModuloOperation"
      [] r = "~" -> "QuotientRemainderOperation"
      [] r = "^" -> "ExponentOperation"
      [] r = "|" -> "ModExponentOperation"
      [] r = "v" -> "SqrtOperation"
      [] r = "c" -> "ClearStackOperation"
      [] r = "d" -> "DuplicationOperation"
      [] r = "r" -> "ReverseOperation"
      [] r = "s" -> "MoveToRegisterOperation"
      [] r = "l" -> "MoveFromRegisterOperation"
      [] r = "S" -> "MoveToRegisterStackOperation"
      [] r = "L" -> "MoveFromRegisterStackOperation"
      [] r = "k" -> "SetPrecisionOperation"
      [] r = "[" -> "StringBuilderOperation"
      [] r \in {"a", "?", "Z", "X", ":", ";"} -> "NotImplementedOperation"
      [] r = "x" -> "ExecuteMacroOperation"
      [] r = ">" -> "ExecuteMacroIfGTOperation"
      [] r = "!" -> "ExecuteMacroNegativeOperation"
      [] r = "<" -> "ExecuteMacroIfLTOperation"
      [] r = "=" -> "ExecuteMacroIfEqOperation"
      [] r = "Q" -> "MacroQuitOperation"
      [] r = "z" -> "PushLengthOperation"
      [] r = "#" -> "CommentOperator"
      [] OTHER -> "none"

\* op.Operate(i, r)
Operate(st, op, r) ==
    CASE op = "NumberBuilderOperation" -> NumberBuilderOperate(st, r)
      [] op = "StringBuilderOperation" -> StringBuilderOperate(st, r)
      [] op = "CommentOperator" -> CommentOperate(st, r)
      [] op \in BinaryOperations -> makeBinaryOperation(st, op)
      [] op \in UnaryOperations -> makeUnaryOperation(st, op)
      [] op \in RegisterOperations -> RegisterOperationOperate(st, op, r)
      [] op \in MacroOperations -> MacroOperationOperate(st, op, r)
      [] op = "ExecuteMacroNegativeOperation" -> NegativeMacroOperationOperate(st, r)
      [] op = "ExecuteMacroOperation" -> ExecuteMacroOperation(st)
      [] op = "QuitOperation" -> QuitOperation(st)
      [] op = "MacroQuitOperation" -> MacroQuitOperation(st)
      [] op = "ModExponentOperation" -> ModExponentOperation(st)
      [] op = "ClearStackOperation" -> ClearStackOperation(st)
      [] op = "SetPrecisionOperation" -> SetPrecisionOperation(st)
      [] op = "PushLengthOperation" -> PushLengthOperation(st)
      [] op = "NotImplementedOperation" -> NotImplementedOperation(st)
      [] op = "PrintOperation" -> PrintOperation(st)
      [] op = "PopAndPrintOperation" -> PopAndPrintOperation(st)
      [] op = "PrintStackOperation" -> PrintStackOperation(st)
      [] op = "SetInputRadixOperation" -> SetInputRadixOperation(st)
      [] op = "SetOutputRadixOperation" -> SetOutputRadixOperation(st)
      [] op = "GetInputRadixOperation" -> GetInputRadixOperation(st)
      [] op = "GetOutputRadixOperation" -> GetOutputRadixOperation(st)

\* Interpret up to its return, or up to the call of InterpretMacro made by
\* the operation via; a panic is the error "panic"
RECURSIVE Interpret(_, _)
\* Interpret once op.Operate(i, r) has returned res
Operated(res, op, r) ==
    LET s1 == [res.st EXCEPT !.CurrentOperation = IF res.finished THEN "nil" ELSE op]
    IN IF res.call
       THEN [st |-> res.st, err |-> "nil", call |-> TRUE, macro |-> res.macro, via |-> op]
       ELSE IF res.err = "ErrContinueProcessingRune"
       THEN IF ~res.finished
            THEN [st |-> s1, err |-> "panic", call |-> FALSE,
                  macro |-> <<>>, via |-> "nil"]
            ELSE Interpret(s1, r)
       ELSE [st |-> s1, err |-> res.err, call |-> FALSE, macro |-> <<>>, via |-> "nil"]

Interpret(st, r) ==
    LET op == IF st.CurrentOperation # "nil" THEN st.CurrentOperation ELSE Operations(r)
    IN IF op = "none"
       THEN [st |-> st, err |-> "nil", call |-> FALSE, macro |-> <<>>, via |-> "nil"]
       ELSE Operated(Operate(st, op, r), op, r)

\* what is left of Operate and Interpret once the InterpretMacro called by
\* the operation via has returned
InterpretReturn(st, via) ==
    LET s1 == [st EXCEPT !.CurrentOperation = "nil"]
    IN IF via \in MacroOperations THEN [s1 EXCEPT !.State[via] = FALSE]
       ELSE IF via = "ExecuteMacroNegativeOperation"
       THEN [s1 EXCEPT !.ExecuteMacroNegativeOperation = [State |-> FALSE, Op |-> NoOp]]
       ELSE s1

\* a variant of the loop body that decrements QuitLevel before testing it
InterpretMacroDecrementsFirst(st, err) ==
    IF err = "nil" THEN [st |-> st, return |-> FALSE, err |-> err]
    ELSE IF err = "ErrExitRequested"
    THEN LET s1 == [st EXCEPT !.QuitLevel = @ - 1]
         IN [st |-> s1, return |-> s1.QuitLevel > 0, err |-> err]
    ELSE [st |-> st, return |-> TRUE, err |-> err]

\* a variant of the loop body that returns on every exit request
InterpretMacroAlwaysReturns(st, err) ==
    IF err = "nil" THEN [st |-> st, return |-> FALSE, err |-> err]
    ELSE IF err = "ErrExitRequested" /\ st.QuitLevel # 0
    THEN [st |-> [st EXCEPT !.QuitLevel = @ - 1], return |-> TRUE, err |-> err]
    ELSE [st |-> st, return |-> TRUE, err |-> err]

\* a variant of the loop body that goes on with the macro after an error
InterpretMacroGoesOn(st, err) ==
    IF err = "ErrExitRequested" /\ st.QuitLevel # 0
    THEN [st |-> [st EXCEPT !.QuitLevel = @ - 1], return |-> TRUE, err |-> err]
    ELSE [st |-> st, return |-> FALSE, err |-> err]

\* the body of InterpretMacro's loop after Interpret has returned err
InterpretMacro(st, err) ==
    IF err = "nil" THEN [st |-> st, return |-> FALSE, err |-> err]
    ELSE IF err = "ErrExitRequested"
    THEN IF st.QuitLevel = 0 THEN [st |-> st, return |-> FALSE, err |-> err]
         ELSE [st |-> [st EXCEPT !.QuitLevel = @ - 1], return |-> TRUE, err |-> err]
    ELSE [st |-> st, return |-> TRUE, err |-> err]

\* the innermost frame of fr returns err: its caller's Operate and Interpret
\* return, and the frame below, if any, handles err in its own loop
RECURSIVE Unwind(_, _, _)
Unwind(st, fr, err) ==
    LET s1 == InterpretReturn(st, fr[Len(fr)].via)
        rest == SubSeq(fr, 1, Len(fr) - 1)
        hd == InterpretMacro(s1, err)
    IN IF rest = <<>> THEN [st |-> s1, frames |-> rest, err |-> err]
       ELSE IF hd.return THEN Unwind(hd.st, rest, hd.err)
       ELSE [st |-> hd.st, frames |-> rest, err |-> err]

(***************************************************************************)
(* The programs fed to the interpreter                                     *)
(***************************************************************************)
Digit(v) == DigitRunes[v + 1]

\* the literal of a small integer, `_` being the sign of a negative one
Lit(v) == IF v < 0 THEN <<"_", Digit(-v)>> ELSE <<Digit(v)>>

Operands == {Lit(v) : v \in (-MaxOperand)..MaxOperand}

Fractions == {<<".", "5">>, <<"1", ".", "5">>, <<"_", ".", "5">>}

Strings == {<<"[", "s", "]">>}

ArithmeticRunes == {"+", "-", "*", "/", "%", "~", "^"}

ConditionalRunes == {"<", ">", "="}

RECURSIVE Callers(_)
\* the macros [x1] ... [xk], pushed in this order
Callers(k) == IF k = 0 THEN <<>> ELSE Callers(k - 1) \o <<"[", "x", Digit(k), "]">>

\* quit runs in the innermost of d nested frames; each caller pushes its label
\* if it resumes, the quitting frame would push 0, the top level pushes 9
QuitProgram(d, quit) ==
    IF d = 0 THEN quit \o <<"0", " ", "9", " ">>
    ELSE <<"[">> \o quit \o <<"0", "]">> \o Callers(d - 1) \o <<"x", "9", " ">>

QuitPrograms ==
    {QuitProgram(d, <<"q">>) : d \in 0..MaxDepth}
    \cup {QuitProgram(d, <<Digit(n), "Q">>) : d \in 1..MaxDepth, n \in 0..MaxDepth}
    \cup {QuitProgram(d, <<Digit(n), " ", "Q">>) : d \in 1..MaxDepth, n \in 0..MaxDepth}

ArithmeticProgram(p, a, b, r) == Lit(p) \o <<"k">> \o a \o <<" ">> \o b \o <<" ", r>>

ArithmeticPrograms ==
    {ArithmeticProgram(p, a, b, r) :
        p \in Precisions, a \in Operands \cup Fractions \cup Strings,
        b \in Operands \cup Fractions \cup Strings, r \in ArithmeticRunes}

\* store a in register a, load it, work on the loaded value, load again
LoadProgram(a, work, load) == a \o <<"s", "a", "l", "a">> \o work \o <<load, "a">>

LoadPrograms ==
    {LoadProgram(a, b \o <<" ", r>>, load) :
        a \in Operands, b \in Operands, r \in ArithmeticRunes, load \in {"l", "L"}}
    \cup {LoadProgram(a, <<"l", "a", r>>, load) :
            a \in Operands, r \in {"+", "-", "*"}, load \in {"l", "L"}}

DuplicationTails ==
    {<<"r">>, <<"1", "+">>, <<"v">>, <<"s", "x">>, <<"r", "1", "+">>, <<"r", "v">>,
     <<"2", "*">>, <<"d", "*">>}

DuplicationProgram(p, a, tail) == Lit(p) \o <<"k">> \o a \o <<"d">> \o tail \o <<" ">>

DuplicationPrograms ==
    {DuplicationProgram(p, a, tail) :
        p \in Precisions, a \in Operands \cup Fractions \cup Strings,
        tail \in DuplicationTails}

\* where a conditional is executed: at top level, in a macro started by x,
\* or in a macro started by a conditional
Contexts == {"top", "x", ">", "<", "=", "!"}

\* the conditional itself: register b holds the macro [7]; right is pushed,
\* then left, then c b or ! c b; 8 follows it
Conditional(left, right, c, neg) ==
    Lit(right) \o <<" ">> \o Lit(left) \o <<" ">>
    \o (IF neg THEN <<"!">> ELSE <<>>) \o <<c, "b", "8">>

ConditionalProgram(ctx, left, right, c, neg) ==
    LET cond == Conditional(left, right, c, neg)
        setup == <<"[", "7", "]", "s", "b">>
        macro == <<"[">> \o cond \o <<"]">>
    IN CASE ctx = "top" -> setup \o cond \o <<" ">>
         [] ctx = "x" -> setup \o macro \o <<"x", " ">>
         [] ctx = ">" -> setup \o macro \o <<"s", "a", "1", " ", "2", ">", "a", " ">>
         [] ctx = "<" -> setup \o macro \o <<"s", "a", "2", " ", "1", "<", "a", " ">>
         [] ctx = "=" -> setup \o macro \o <<"s", "a", "1", " ", "1", "=", "a", " ">>
         [] ctx = "!" -> setup \o macro \o <<"s", "a", "1", " ", "1", "!", ">", "a", " ">>

ConditionalPrograms ==
    {ConditionalProgram(ctx, left, right, c, neg) :
        ctx \in Contexts, left \in (-MaxOperand)..MaxOperand,
        right \in (-MaxOperand)..MaxOperand, c \in ConditionalRunes, neg \in BOOLEAN}

RECURSIVE Texts(_)
\* every text of at most n runes over `[`, `]` and z
Texts(n) ==
    IF n = 0 THEN {<<>>}
    ELSE Texts(n - 1) \cup {Append(t, r) : t \in Texts(n - 1), r \in {"[", "]", "z"}}

RECURSIVE Depth(_, _, _)
\* the bracket depth after the first k runes of t, -1 once it went below 0
Depth(t, k, d) ==
    IF d < 0 \/ k = 0 THEN d
    ELSE LET before == Depth(t, k - 1, d)
         IN IF before < 0 THEN -1
            ELSE IF t[k] = "[" THEN before + 1
            ELSE IF t[k] = "]" THEN before - 1
            ELSE before

Balanced(t) == Depth(t, Len(t), 0) = 0

StringProgram(t) == <<"1", "[">> \o t \o <<"]", " ">>

StringPrograms == {StringProgram(t) : t \in {u \in Texts(MaxText) : Balanced(u)}}

ModExponentProgram(p, n, second, top) ==
    Lit(p) \o <<"k">> \o Lit(n) \o <<" ">> \o Lit(second) \o <<" ">> \o Lit(top)
    \o <<" ", "|", " ">>

ModExponentPrograms ==
    {ModExponentProgram(p, n, second, top) :
        p \in Precisions, n \in (-MaxOperand)..MaxOperand,
        second \in (-MaxOperand)..MaxOperand, top \in (-MaxOperand)..MaxOperand}

\* a number is entered at precision p, the precision is set to q, and the
\* number is worked on and printed
RescaleTails == {<<"v", "p">>, <<"p">>, <<"n">>, <<"d", "f">>}

RescaleProgram(p, a, q, tail) ==
    Lit(p) \o <<"k">> \o a \o <<" ">> \o Lit(q) \o <<"k">> \o tail \o <<" ">>

RescalePrograms ==
    {RescaleProgram(p, a, q, tail) :
        p \in Precisions, a \in Operands \cup Fractions \cup Strings,
        q \in Precisions, tail \in RescaleTails}

\* the radices set by the generated programs, as decimal literals
Radices == {2, 10, 16}

RadixLit(r) == IF r < 10 THEN <<Digit(r)>> ELSE <<Digit(r \div 10), Digit(r % 10)>>

\* numbers with more than one digit in some radix
LongOperands == {<<"1", "1">>, <<"2", "5", "5">>, <<"_", "1", "0">>}

\* the output radix and the precision are set, a number is entered and printed
PrintProgram(o, p, a, r) ==
    RadixLit(o) \o <<"o">> \o Lit(p) \o <<"k">> \o a \o <<r, " ">>

PrintPrograms ==
    {PrintProgram(o, p, a, r) :
        o \in Radices, p \in Precisions,
        a \in Operands \cup Fractions \cup LongOperands, r \in {"p", "n", "f"}}

\* the digit strings of one or two digits over ds
DigitStrings(ds) == {<<d>> : d \in ds} \cup {<<d, e>> : d \in ds, e \in ds}

\* an optional sign in front of the unsigned literals us
Signed(us) == us \cup {<<"_">> \o u : u \in us}

\* the decimal integer literals, and each of them printed with p
IntegerLiterals == Signed(DigitStrings({Digit(v) : v \in 0..MaxOperand}))

IntegerProgram(l) == l \o <<"p">>

IntegerPrograms == {IntegerProgram(l) : l \in IntegerLiterals}

\* the digits of the generated literals
LiteralDigits == {"0", "1", "A"}

\* the literals digit+ ('.' digit*)? and '.' digit+, with an optional sign
Literals ==
    LET ds == DigitStrings(LiteralDigits)
    IN Signed(ds \cup {i \o <<".">> : i \in ds}
                 \cup {i \o <<".">> \o f : i \in ds, f \in ds}
                 \cup {<<".">> \o f : f \in ds})

\* the precision and the input radix are set, then the literal is entered
LiteralProgram(p, r, l) ==
    Lit(p) \o <<"k">> \o RadixLit(r) \o <<"i">> \o l \o <<" ">>

LiteralPrograms ==
    {LiteralProgram(p, r, l) : p \in Precisions, r \in Radices, l \in Literals}

\* register commands applied to a main stack holding 1, 2 and 3
RegisterCommands ==
    {<<"s", "a">>, <<"S", "a">>, <<"S", "b">>, <<"L", "a">>, <<"L", "b">>, <<"4", " ">>}

RegisterProgram(c1, c2, c3, c4) ==
    <<"1", " ", "2", " ", "3", " ">> \o c1 \o c2 \o c3 \o c4

RegisterPrograms ==
    {RegisterProgram(c1, c2, c3, c4) :
        c1 \in RegisterCommands, c2 \in RegisterCommands,
        c3 \in RegisterCommands, c4 \in RegisterCommands}

\* the settings are changed, then one of them is asked for
SettingRunes == {"K", "I", "O"}

SettingProgram(p, o, i, r) ==
    Lit(p) \o <<"k">> \o RadixLit(o) \o <<"o">> \o RadixLit(i) \o <<"i", r, " ">>

SettingPrograms ==
    {SettingProgram(p, o, i, r) :
        p \in 0..MaxOperand, o \in Radices, i \in Radices, r \in SettingRunes}

\* the commands that take operands from the main stack, with the number of
\* operands each needs
Needs ==
    [c \in {<<"p">>, <<"n">>, <<"d">>, <<"x">>, <<"k">>, <<"v">>,
             <<"s", "a">>, <<"S", "a">>} |-> 1]
    @@ [c \in {<<r>> : r \in ArithmeticRunes \cup {"r"}} |-> 2]
    @@ [c \in {<<"|">>} |-> 3]

RECURSIVE Entered(_)
\* the literals 1 ... n, each followed by a space
Entered(n) == IF n = 0 THEN <<>> ELSE Entered(n - 1) \o <<Digit(n), " ">>

\* a command applied to a main stack of n numbers
OperandProgram(n, c) == Entered(n) \o c \o <<" ">>

OperandPrograms == {OperandProgram(n, c) : n \in 0..3, c \in DOMAIN Needs}

\* operands and commands of the programs in which commands fail
FailureOperands ==
    {<<"0">>, <<"2">>, <<"_", "1">>, <<"1", ".", "5">>, <<"[", "s", "]">>}

FailureCommands ==
    {<<"k">>, <<"v">>, <<"/">>, <<"|">>, <<"<", "b">>, <<"=", "b">>,
     <<"!", ">", "b">>, <<"i">>, <<"o">>}

\* register b holds the macro [7]; three operands are pushed at precision p
\* and the command is applied to them
FailureProgram(p, a, b, c, cmd) ==
    <<"[", "7", "]", "s", "b">> \o Lit(p) \o <<"k">>
    \o a \o <<" ">> \o b \o <<" ">> \o c \o <<" ">> \o cmd \o <<" ">>

FailurePrograms ==
    {FailureProgram(p, a, b, c, cmd) :
        p \in Precisions, a \in FailureOperands, b \in FailureOperands,
        c \in FailureOperands, cmd \in FailureCommands}

\* commands that return an error on an empty main stack and leave it empty
FailingCommands == {<<"+">>, <<"a">>, <<"l", "c">>, <<"s", "0">>}

\* the failing command runs in the innermost of d frames started by x, or in
\* a macro started by a conditional inside d - 1 such frames
FailingMacroPrograms ==
    {QuitProgram(d, f) : d \in 1..MaxDepth, f \in FailingCommands}
    \cup {<<"[">> \o f \o <<"0", "]", "s", "a", "[", "1", " ", "2">> \o c
             \o <<"a", "0", "]">> \o Callers(d - 1) \o <<"x", "9", " ">> :
            d \in 1..MaxDepth, f \in FailingCommands,
            c \in {<<">">>, <<"!", "<">>}}

\* numbers in and out of the range of a radix, as decimal literals
RadixValues == {-1, 0, 1, 2, 16, 17}

\* the number v is given to i or o, then both radices are asked for
RadixProgram(v, set) ==
    (IF v < 0 THEN <<"_">> \o RadixLit(-v) ELSE RadixLit(v)) \o <<set, "I", "O", " ">>

RadixPrograms == {RadixProgram(v, set) : v \in RadixValues, set \in {"i", "o"}}

\* Q applied to a negative number, to a String and to an empty stack, in the
\* innermost of d frames
OddQuitPrograms ==
    {QuitProgram(d, quit) :
        d \in 0..2, quit \in {<<"_", "1", "Q">>, <<"[", "s", "]", "Q">>, <<"Q">>}}

\* a is divided by b and multiplied by b again, or b is added to a and taken
\* off again
RoundTrips == {<<"/", "*">>, <<"+", "-">>}

RoundTripProgram(p, a, b, ops) ==
    Lit(p) \o <<"k">> \o a \o <<" ">> \o b \o <<" ", ops[1]>> \o b \o <<" ", ops[2], " ">>

RoundTripPrograms ==
    {RoundTripProgram(p, a, b, ops) :
        p \in Precisions, a \in Operands \cup Fractions,
        b \in (Operands \cup Fractions) \ {Lit(0)}, ops \in RoundTrips}

\* the runes of the generated macros: digits, operations of one rune,
\* register operations and their names, and the comment
MacroRunes == {"1", "2", ".", "_", "+", "/", "p", "k", "d", "s", "l", "a", "#", "!"}

RECURSIVE Macros(_)
\* the macros of at most n runes
Macros(n) ==
    IF n = 0 THEN {<<>>}
    ELSE Macros(n - 1) \cup {Append(m, r) : m \in Macros(n - 1), r \in MacroRunes}

\* the macro m is pushed and executed with x
MacroProgram(m) == <<"[">> \o m \o <<"]", "x">>

MacroPrograms == {MacroProgram(m) : m \in Macros(MaxMacro)}

\* runes that are not register names
OtherRunes == {"0", "A", "[", "+", " ", "x", "Z", "\n"}

\* a register operation is followed by the rune r, then 2 is entered
NameProgram(op, r) == <<"1", " ", op, r, "2", " ">>

NamePrograms == {NameProgram(op, r) : op \in {"s", "l", "S", "L"}, r \in OtherRunes}

\* the literal l has a point
HasDot(l) == \E k \in 1..Len(l) : l[k] = "."

\* the literals of a run of digit runes: the first one, and the ones begun by
\* a _ or, after a literal with a point, by a second point
FirstLiterals ==
    {<<"1", "2">>, <<"1", "2", ".", "3", "4">>, <<"_", "1", ".", "5">>, <<"3", ".">>}

NextLiterals ==
    {<<"_", "3", "4">>, <<".", "5", "6">>, <<"_", "5", "6", ".", "7", "8">>, <<".", "7">>}

\* the runs of two and of three literals
LiteralRuns ==
    LET follows(l, m) == m[1] = "_" \/ HasDot(l)
        pairs == {<<l, m>> : l \in FirstLiterals, m \in NextLiterals}
        triples == {<<l, m, n>> : l \in FirstLiterals, m \in NextLiterals,
                                  n \in NextLiterals}
    IN {r \in pairs \cup triples :
            \A k \in 1..(Len(r) - 1) : follows(r[k], r[k + 1])}

RECURSIVE Joined(_)
\* the literals of a run one after the other
Joined(run) == IF run = <<>> THEN <<>> ELSE Head(run) \o Joined(Tail(run))

\* the run is entered at precision p and ended by a space
RunProgram(p, run) == Lit(p) \o <<"k">> \o Joined(run) \o <<" ">>

RunPrograms == {RunProgram(p, run) : p \in 0..MaxDigits, run \in LiteralRuns}

\* the entries of the stacks that are listed
ListedOperands == {<<"1">>, <<"_", "2">>, <<"1", ".", "5">>, <<"[", "s", "]">>}

RECURSIVE Listings(_)
\* the runes that push at most n of the entries, one after the other
Listings(n) ==
    IF n = 0 THEN {<<>>}
    ELSE Listings(n - 1)
             \cup {l \o a \o <<" ">> : l \in Listings(n - 1), a \in ListedOperands}

\* at precision p the entries are pushed and the stack is listed
ListingProgram(p, l) == Lit(p) \o <<"k">> \o l \o <<"f">>

ListingPrograms ==
    {ListingProgram(p, l) : p \in Precisions, l \in Listings(MaxOperand)}

\* texts that the NumberBuilder collects and that do not parse in radix 10,
\* with the lone point and 2, which do
FirstTexts ==
    {<<"_">>, <<".">>, <<"_", ".">>, <<"A">>, <<"_", "A">>, <<"1", ".", "A">>,
     <<"A", ".", "1">>, <<"2">>}

\* the literals entered after them
SecondTexts == {<<"1">>, <<"_", "1">>, <<"1", ".", "5">>, <<".", "5">>}

\* at precision p the text is ended by the rune t, then the literal is entered
TwoLiteralsProgram(p, bad, t, good) ==
    Lit(p) \o <<"k">> \o bad \o <<t>> \o good \o <<" ">>

TwoLiteralsPrograms ==
    {TwoLiteralsProgram(p, bad, t, good) :
        p \in Precisions, bad \in FirstTexts, t \in {" ", "d", "_", "+"},
        good \in SecondTexts}

Programs ==
    QuitPrograms \cup ArithmeticPrograms \cup LoadPrograms \cup DuplicationPrograms
    \cup ConditionalPrograms \cup StringPrograms \cup ModExponentPrograms
    \cup RescalePrograms \cup PrintPrograms \cup IntegerPrograms
    \cup LiteralPrograms \cup RegisterPrograms \cup SettingPrograms
    \cup OperandPrograms \cup FailurePrograms \cup FailingMacroPrograms
    \cup RadixPrograms \cup OddQuitPrograms \cup RoundTripPrograms
    \cup MacroPrograms \cup NamePrograms \cup RunPrograms
        \cup ListingPrograms \cup TwoLiteralsPrograms

(***************************************************************************)
(* State: the Interpreter's fields, the operation objects, the heap, the   *)
(* input and the active InterpretMacro calls                               *)
(***************************************************************************)
VARIABLES
    Stack,                          \* i.Stack: addresses, the top is last
    Registers,                      \* i.Registers: a stack for each of a..z
    heap,                           \* every Value allocated so far
    Precision,                      \* i.Precision
    QuitLevel,                      \* i.QuitLevel
    InputRadix,                     \* i.InputRadix
    OutputRadix,                    \* i.OutputRadix
    CurrentOperation,               \* i.CurrentOperation: an operation or "nil"
    State,                          \* State of the register and conditional operations
    NumberBuilderOperation,         \* the NumberBuilder's buff, sign, dotSeen, State
    StringBuilderOperation,         \* the StringBuilder's OperationState and strval
    ExecuteMacroNegativeOperation,  \* the NegativeMacroOperation's State and Op
    output,                         \* the runes written to i.output
    frames,                         \* active InterpretMacro calls, the innermost last
    program,                        \* the runes the main loop reads
    ip,                             \* index of the next rune of program
    err,                            \* the error Interpret returned last
    status                          \* "running", "exited", "panicked" or "eof"

vars == <<Stack, Registers, heap, Precision, QuitLevel, InputRadix, OutputRadix,
          CurrentOperation, State, NumberBuilderOperation, StringBuilderOperation,
          ExecuteMacroNegativeOperation, output, frames, program, ip, err, status>>

\* the interpreter and the operation objects as one record
Self ==
    [Stack |-> Stack, Registers |-> Registers, heap |-> heap, Precision |-> Precision,
     QuitLevel |-> QuitLevel, InputRadix |-> InputRadix, OutputRadix |-> OutputRadix,
     CurrentOperation |-> CurrentOperation, State |-> State,
     NumberBuilderOperation |-> NumberBuilderOperation,
     StringBuilderOperation |-> StringBuilderOperation,
     ExecuteMacroNegativeOperation |-> ExecuteMacroNegativeOperation,
     output |-> output]

Becomes(st) ==
    /\ Stack' = st.Stack
    /\ Registers' = st.Registers
    /\ heap' = st.heap
    /\ Precision' = st.Precision
    /\ QuitLevel' = st.QuitLevel
    /\ InputRadix' = st.InputRadix
    /\ OutputRadix' = st.OutputRadix
    /\ CurrentOperation' = st.CurrentOperation
    /\ State' = st.State
    /\ NumberBuilderOperation' = st.NumberBuilderOperation
    /\ StringBuilderOperation' = st.StringBuilderOperation
    /\ ExecuteMacroNegativeOperation' = st.ExecuteMacroNegativeOperation
    /\ output' = st.output

\* NewInterpreter and the zero values of the operation objects
Init ==
    /\ Stack = <<>>
    /\ Registers = [x \in RegisterNames |-> <<>>]
    /\ heap = <<>>
    /\ Precision = 0
    /\ QuitLevel = 0
    /\ InputRadix = 10
    /\ OutputRadix = 10
    /\ CurrentOperation = "nil"
    /\ State = [op \in RegisterOperations \cup MacroOperations |-> FALSE]
    /\ NumberBuilderOperation =
           [buff |-> <<>>, sign |-> FALSE, dotSeen |-> FALSE, State |-> FALSE]
    /\ StringBuilderOperation = [OperationState |-> FALSE, strval |-> <<>>]
    /\ ExecuteMacroNegativeOperation = [State |-> FALSE, Op |-> NoOp]
    /\ output = <<>>
    /\ frames = <<>>
    /\ program \in Programs
    /\ ip = 1
    /\ err = "nil"
    /\ status = "running"

\* the main loop's reaction to the error of a top-level Interpret
mainStatus(e) ==
    IF e = "ErrExitRequested" THEN "exited"
    ELSE IF e = "panic" THEN "panicked"
    ELSE "running"

\* the frame of a call InterpretMacro(macro) made by the operation via
Frame(macro, via) == [macro |-> macro, pc |-> 1, via |-> via]

\* the rune the next step hands to Interpret: the next rune of the innermost
\* macro, the space after its last rune, or the next rune of the input
Rune ==
    IF frames # <<>>
    THEN LET f == frames[Len(frames)]
         IN IF f.pc <= Len(f.macro) THEN f.macro[f.pc] ELSE " "
    ELSE IF ip <= Len(program) THEN program[ip] ELSE "EOF"

\* the main loop reads a rune and interprets it
MainLoop ==
    /\ status = "running"
    /\ frames = <<>>
    /\ ip <= Len(program)
    /\ \E res \in {Interpret(Self, program[ip])} :
          /\ Becomes(res.st)
          /\ ip' = ip + 1
          /\ frames' = IF res.call THEN <<Frame(res.macro, res.via)>> ELSE <<>>
          /\ err' = res.err
          /\ status' = mainStatus(res.err)
    /\ UNCHANGED program

\* the innermost InterpretMacro interprets the next rune of its macro
MacroStep ==
    /\ status = "running"
    /\ frames # <<>>
    /\ LET d == Len(frames)
           f == frames[d]
       IN /\ f.pc <= Len(f.macro)
          /\ \E res \in {Interpret(Self, f.macro[f.pc])} :
             \E fr \in {[frames EXCEPT ![d].pc = @ + 1]} :
             \E hd \in {InterpretMacro(res.st, res.err)} :
             \E u \in {Unwind(hd.st, fr, hd.err)} :
                IF res.call
                THEN /\ Becomes(res.st)
                     /\ frames' = Append(fr, Frame(res.macro, res.via))
                     /\ UNCHANGED <<err, status>>
                ELSE IF hd.return
                THEN /\ Becomes(u.st)
                     /\ frames' = u.frames
                     /\ err' = u.err
                     /\ status' = IF u.frames = <<>> THEN mainStatus(u.err) ELSE status
                ELSE /\ Becomes(hd.st)
                     /\ frames' = fr
                     /\ err' = res.err
                     /\ UNCHANGED status
    /\ UNCHANGED <<program, ip>>

\* the innermost InterpretMacro is past its last rune: it interprets a space
\* and returns nil
MacroEnd ==
    /\ status = "running"
    /\ frames # <<>>
    /\ LET f == frames[Len(frames)]
       IN /\ f.pc > Len(f.macro)
          /\ \E u \in {Unwind(Interpret(Self, " ").st, frames, "nil")} :
                /\ Becomes(u.st)
                /\ frames' = u.frames
                /\ err' = "nil"
    /\ UNCHANGED <<program, ip, status>>

\* the main loop reads EOF and returns
EndOfInput ==
    /\ status = "running"
    /\ frames = <<>>
    /\ ip > Len(program)
    /\ status' = "eof"
    /\ UNCHANGED <<Stack, Registers, heap, Precision, QuitLevel, InputRadix, OutputRadix,
                   CurrentOperation, State, NumberBuilderOperation,
                   StringBuilderOperation, ExecuteMacroNegativeOperation, output,
                   frames, program, ip, err>>

Next == MainLoop \/ MacroStep \/ MacroEnd \/ EndOfInput

Spec == Init /\ [][Next]_vars

(***************************************************************************)
(* Views of the state used by the properties                               *)
(***************************************************************************)
\* v and w are of the same type and stand for the same string or number
SameValue(v, w) ==
    /\ v.Type = w.Type
    /\ IF v.Type = "VTString" THEN v.strval = w.strval
       ELSE v.intval * precisionToFactor(w.precision)
                = w.intval * precisionToFactor(v.precision)

\* v is the number n
IsInt(v, n) == v.Type = "VTNumber" /\ v.intval = n * precisionToFactor(v.precision)

\* the main stack holds exactly the integers ints, bottom first
StackIs(ints) ==
    /\ Len(Stack) = Len(ints)
    /\ \A k \in 1..Len(ints) : IsInt(heap[Stack[k]], ints[k])

\* the labels n, n+1, ..., d-1
Labels(n, d) == [k \in 1..(d - n) |-> n + k - 1]

\* the next step looks r up in the table of operations
Dispatches(r) == status = "running" /\ CurrentOperation = "nil" /\ Rune = r

\* the runes rs interpreted one after the other from st, up to the first
\* error or the first call of InterpretMacro
RECURSIVE Feed(_, _)
Feed(st, rs) ==
    IF rs = <<>>
    THEN [st |-> st, err |-> "nil", call |-> FALSE, macro |-> <<>>, via |-> "nil"]
    ELSE LET res == Interpret(st, Head(rs))
         IN IF res.call \/ res.err # "nil" THEN res ELSE Feed(res.st, Tail(rs))

RECURSIVE Numeral(_, _)
\* the digits of the natural number n in radix r, with A..F for 10..15
Numeral(n, r) ==
    IF n < r THEN <<DigitRunes[n + 1]>>
    ELSE Numeral(n \div r, r) \o <<DigitRunes[(n % r) + 1]>>

\* the number num/den, den > 0, written in radix r with p fractional digits:
\* a - only when it is negative, the integer part of its magnitude, and for
\* p > 0 a point and p digits, the k-th being floor(frac * r^k) mod r
Rendering(num, den, r, p) ==
    (IF num < 0 THEN <<"-">> ELSE <<>>)
    \o Numeral(Abs(num) \div den, r)
    \o (IF p = 0 THEN <<>>
        ELSE <<".">> \o [k \in 1..p |->
                            DigitRunes[(((Abs(num) * Pow(r, k)) \div den) % r) + 1]])

RECURSIVE Positional(_, _)
\* the natural number that the digits ds stand for in radix r
Positional(ds, r) ==
    IF ds = <<>> THEN 0
    ELSE Positional(SubSeq(ds, 1, Len(ds) - 1), r) * r + DigitValue(ds[Len(ds)])

\* the parts of a literal: its sign, the digits before the point and after it
Negated(l) == l # <<>> /\ l[1] = "_"

Unsigned(l) == IF Negated(l) THEN Tail(l) ELSE l

IntegerDigits(l) ==
    LET u == Unsigned(l)
    IN IF \E k \in 1..Len(u) : u[k] = "."
       THEN SubSeq(u, 1, (CHOOSE k \in 1..Len(u) : u[k] = ".") - 1)
       ELSE u

FractionDigits(l) ==
    LET u == Unsigned(l)
    IN IF \E k \in 1..Len(u) : u[k] = "."
       THEN SubSeq(u, (CHOOSE k \in 1..Len(u) : u[k] = ".") + 1, Len(u))
       ELSE <<>>

\* the literal l read in radix r is LiteralNumerator / r^Len(FractionDigits(l))
LiteralNumerator(l, r) ==
    LET n == Positional(IntegerDigits(l), r) * Pow(r, Len(FractionDigits(l)))
                 + Positional(FractionDigits(l), r)
    IN IF Negated(l) THEN -n ELSE n

\* the interpreter NewInterpreter returns, with the operation objects
NewInterpreter ==
    [Stack |-> <<>>, Registers |-> [x \in RegisterNames |-> <<>>], heap |-> <<>>,
     Precision |-> 0, QuitLevel |-> 0, InputRadix |-> 10, OutputRadix |-> 10,
     CurrentOperation |-> "nil",
     State |-> [op \in RegisterOperations \cup MacroOperations |-> FALSE],
     NumberBuilderOperation |->
         [buff |-> <<>>, sign |-> FALSE, dotSeen |-> FALSE, State |-> FALSE],
     StringBuilderOperation |-> [OperationState |-> FALSE, strval |-> <<>>],
     ExecuteMacroNegativeOperation |-> [State |-> FALSE, Op |-> NoOp],
     output |-> <<>>]

\* what p would write for the Value at n in the heap h at precision p
RenderedAt(h, n, p) == Rendered([heap |-> h, Precision |-> p], n)

(***************************************************************************)
(* Quitting                                                                *)
(***************************************************************************)
QuitTexts(n) == {<<Digit(n), "Q">>, <<Digit(n), " ", "Q">>}

C1_Final ==
    \A d \in 2..MaxDepth : \A n \in 1..(d - 1) : \A quit \in QuitTexts(n) :
        (program = QuitProgram(d, quit) /\ status = "eof")
            => StackIs(Labels(n, d) \o <<9>>)

C1_Step ==
    \A n \in 1..(Len(frames) - 1) :
        (Dispatches("Q") /\ Stack # <<>> /\ IsInt(heap[Peek(Stack)], n))
            => /\ frames' = SubSeq(frames, 1, Len(frames) - n)
               /\ status' = "running"

\* C1: Q executed with n on top of the stack in the innermost of d frames,
\* 1 <= n < d, ends exactly the n innermost frames: the frames left are the
\* d-n outer ones, each at the rune after its call, and in a program whose
\* frames push their labels on resuming, exactly the labels of the outer d-n
\* frames are pushed and none of the n innermost ones.
C1_QExitsExactlyNFrames == []C1_Final /\ [][C1_Step]_vars

C1_Witness ==
    \E d \in 3..MaxDepth : \E n \in 2..(d - 1) :
        /\ program = QuitProgram(d, <<Digit(n), "Q">>)
        /\ status = "eof"
        /\ StackIs(Labels(n, d) \o <<9>>)

C2_Final ==
    \A d \in 0..MaxDepth :
        program = QuitProgram(d, <<"q">>)
            => IF d >= 2 THEN status = "eof" => StackIs(Labels(1, d) \o <<9>>)
               ELSE /\ status # "eof"
                    /\ \A k \in 1..Len(Stack) : heap[Stack[k]].Type # "VTNumber"

C2_Step ==
    Dispatches("q")
        => /\ QuitOperation(Self).st.QuitLevel = 1
           /\ err' = "ErrExitRequested"
           /\ IF Len(frames) >= 2
              THEN /\ frames' = SubSeq(frames, 1, Len(frames) - 1)
                   /\ status' = "running"
              ELSE /\ frames' = <<>>
                   /\ status' = "exited"

\* C2: q sets QuitLevel to 1 and ends exactly one frame: at depth 2 or more
\* the frame of the q is gone and its caller is the innermost frame, at the
\* rune after its call; at depth 1 and at top level the top-level Interpret
\* returns exit-requested and the main loop ends.
C2_QExitsOneFrame == []C2_Final /\ [][C2_Step]_vars

C2_Witness ==
    /\ \E d \in 2..MaxDepth : program = QuitProgram(d, <<"q">>)
    /\ status = "running"
    /\ frames # <<>>
    /\ err = "ErrExitRequested"

(***************************************************************************)
(* Errors of the arithmetic operators, and copies                          *)
(***************************************************************************)
\* C3: when one of + - * / % ~ ^ is applied to a stack of at least two
\* values and returns an error, the main stack holds the same values in the
\* same order afterwards, each of the same type and the same numeric value.
C3_ErrorRestoresOperands ==
    [][\A r \in ArithmeticRunes :
         (Dispatches(r) /\ Len(Stack) >= 2 /\ err' # "nil")
             => /\ Len(Stack') = Len(Stack)
                /\ \A k \in 1..Len(Stack) :
                       SameValue(heap'[Stack'[k]], heap[Stack[k]])]_vars

\* the value l or L would take from register x
Loadable(h, regs, x) == h[Peek(regs[x])]

\* C4: no arithmetic on the main stack changes the value that a later l or L
\* takes from a register, also when operands were loaded from it with l.
C4_LoadIsACopy ==
    [][\A r \in ArithmeticRunes : \A x \in RegisterNames :
         (Dispatches(r) /\ Registers[x] # <<>>)
             => /\ Registers'[x] = Registers[x]
                /\ SameValue(Loadable(heap', Registers', x),
                             Loadable(heap, Registers, x))]_vars

\* d applied to a non-empty stack: one more entry, the two on top equal to
\* the old top, and the new top a Value that nothing else points to
C5_Duplicates ==
    (Dispatches("d") /\ Stack # <<>>)
        => /\ Len(Stack') = Len(Stack) + 1
           /\ SameValue(heap'[Peek(Stack')], heap[Peek(Stack)])
           /\ SameValue(heap'[Peek(Pop(Stack'))], heap[Peek(Stack)])
           /\ \A k \in 1..Len(Stack) : Stack'[k] # Peek(Stack')
           /\ \A x \in RegisterNames : \A k \in 1..Len(Registers[x]) :
                  Registers'[x][k] # Peek(Stack')

\* r applied to two equal values leaves the two top values as they were
C5_Reverses ==
    (Dispatches("r") /\ Len(Stack) >= 2
       /\ SameValue(heap[Peek(Stack)], heap[Peek(Pop(Stack))]))
        => /\ Len(Stack') = Len(Stack)
           /\ SameValue(heap'[Peek(Stack')], heap[Peek(Stack)])
           /\ SameValue(heap'[Peek(Pop(Stack'))], heap[Peek(Pop(Stack))])

\* in a program that works on one of the two copies after d, the other copy
\* is the bottom of the stack, and no step changes its value
C5_OtherCopyKept ==
    (program \in DuplicationPrograms /\ Len(Stack) >= 2)
        => /\ Stack' # <<>>
           /\ SameValue(heap'[Stack'[1]], heap[Stack[1]])

\* C5: after d the two top entries are equal in value and independent: d
\* then r leaves the two top values unchanged, and an operation that changes
\* or consumes one copy leaves the value of the other copy unchanged.
C5_DuplicateIsIndependent == [][C5_Duplicates /\ C5_Reverses /\ C5_OtherCopyKept]_vars

C5_Witness ==
    /\ \E p \in Precisions : \E a \in Operands \cup Fractions :
           program = DuplicationProgram(p, a, <<"1", "+">>)
    /\ status = "eof"
    /\ Len(Stack) = 2
    /\ ~SameValue(heap[Stack[1]], heap[Stack[2]])

(***************************************************************************)
(* Conditional macros                                                      *)
(***************************************************************************)
\* the comparison of the conditional rune c on the numbers left and right
Compare(c, left, right) ==
    LET l == left.intval * precisionToFactor(right.precision)
        r == right.intval * precisionToFactor(left.precision)
    IN CASE c = "<" -> l < r
         [] c = ">" -> l > r
         [] c = "=" -> l = r

\* no operation is pending, the two values on top of the main stack are
\* numbers and the top of register x is a String
ReadyForConditional(x) ==
    /\ status = "running"
    /\ CurrentOperation = "nil"
    /\ Len(Stack) >= 2
    /\ BothNumbers(heap, Peek(Stack), Peek(Pop(Stack)))
    /\ Registers[x] # <<>>
    /\ heap[Peek(Registers[x])].Type = "VTString"

\* C6: with two numbers on the main stack (left on top, right beneath) and
\* a String on top of register x, each of <x >x =x pops both numbers and
\* runs the String as a macro if and only if left < right, left > right,
\* left = right; no rune of the macro is interpreted otherwise.
C6_ConditionalRunsIffComparisonHolds ==
    \A c \in ConditionalRunes : \A x \in {"a", "b"} :
        ReadyForConditional(x)
            => LET res == Feed(Self, <<c, x>>)
                   left == heap[Peek(Stack)]
                   right == heap[Peek(Pop(Stack))]
               IN /\ res.st.Stack = Pop(Pop(Stack))
                  /\ res.call <=> Compare(c, left, right)
                  /\ res.call => res.macro = heap[Peek(Registers[x])].strval

\* C7: from the same state, ! c x runs the macro of register x exactly when
\* c x does not, and both pop the two operands.
C7_NegationIsStrict ==
    \A c \in ConditionalRunes : \A x \in {"a", "b"} :
        ReadyForConditional(x)
            => LET plain == Feed(Self, <<c, x>>)
                   negated == Feed(Self, <<"!", c, x>>)
               IN /\ negated.call <=> ~plain.call
                  /\ plain.st.Stack = Pop(Pop(Stack))
                  /\ negated.st.Stack = Pop(Pop(Stack))

\* a conditional or negated conditional has consumed its operator runes and
\* waits for the register name
AwaitsRegister ==
    \/ CurrentOperation \in MacroOperations /\ State[CurrentOperation]
    \/ /\ CurrentOperation = "ExecuteMacroNegativeOperation"
       /\ ExecuteMacroNegativeOperation.Op.State
       /\ ExecuteMacroNegativeOperation.Op.Predicate \in MacroOperations

\* whether the waiting operator's predicate fires on left and right
Fires(left, right) ==
    LET rune(op) == CHOOSE c \in ConditionalRunes : Operations(c) = op
    IN IF CurrentOperation = "ExecuteMacroNegativeOperation"
       THEN ~Compare(rune(ExecuteMacroNegativeOperation.Op.Predicate), left, right)
       ELSE Compare(rune(CurrentOperation), left, right)

C8_Step ==
    \A x \in RegisterNames :
        (/\ status = "running"
         /\ Rune = x
         /\ AwaitsRegister
         /\ Len(Stack) >= 2
         /\ BothNumbers(heap, Peek(Stack), Peek(Pop(Stack)))
         /\ Registers[x] # <<>>
         /\ heap[Peek(Registers[x])].Type = "VTString")
            => LET fires == Fires(heap[Peek(Stack)], heap[Peek(Pop(Stack))])
                   started == /\ Len(frames') = Len(frames) + 1
                              /\ frames'[Len(frames')].pc = 1
                              /\ frames'[Len(frames')].macro
                                     = heap[Peek(Registers[x])].strval
               IN /\ fires => Registers' = [Registers EXCEPT ![x] = Pop(@)]
                  /\ ~fires => Registers' = Registers
                  /\ fires <=> started

\* C8: a conditional or negated conditional that is given the name of a
\* register holding a String, with two numbers on the main stack, pops that
\* String exactly when its predicate fires, and the register is one shorter
\* when the macro starts; when the predicate is false every register is
\* unchanged.
C8_RegisterPoppedIffFires == [][C8_Step]_vars

C8_Witness ==
    /\ frames # <<>>
    /\ frames[Len(frames)].via \in MacroOperations \cup {"ExecuteMacroNegativeOperation"}
    /\ frames[Len(frames)].pc = 1
    /\ frames[Len(frames)].macro = <<"7">>
    /\ Registers["b"] = <<>>

(***************************************************************************)
(* String literals                                                         *)
(***************************************************************************)
\* C9: a string literal ends at the ] that closes its first [: after
\* 1[t] with balanced brackets in t, the main stack holds 1 and the one
\* String t, and no rune of t was run as an operation.
C9_BracketsNest ==
    status = "eof"
        => \A t \in Texts(MaxText) :
               (Balanced(t) /\ program = StringProgram(t))
                   => /\ Len(Stack) = 2
                      /\ IsInt(heap[Stack[1]], 1)
                      /\ SameValue(heap[Stack[2]], StringValue(t))

(***************************************************************************)
(* Modular exponentiation                                                  *)
(***************************************************************************)
\* the three values on top of the main stack are whole numbers
ThreeIntegers ==
    /\ Len(Stack) >= 3
    /\ \A k \in (Len(Stack) - 2)..Len(Stack) :
           /\ heap[Stack[k]].Type = "VTNumber"
           /\ heap[Stack[k]].intval % precisionToFactor(heap[Stack[k]].precision) = 0

\* the whole number at the k-th place from the top of the main stack
Whole(k) ==
    LET v == heap[Stack[Len(Stack) + 1 - k]]
    IN v.intval \div precisionToFactor(v.precision)

\* C10 as stated: with three integers on the main stack, | takes the top as
\* the exponent e and the second entry as the modulus m, pushes n^e mod m
\* for the third entry n, and leaves the stack two entries shorter.
C10_TopIsExponent ==
    [][(Dispatches("|") /\ ThreeIntegers /\ Whole(1) > 0 /\ Whole(2) # 0)
          => /\ Len(Stack') = Len(Stack) - 2
             /\ IsInt(heap'[Peek(Stack')], ExpMod(Whole(3), Whole(1), Whole(2)))]_vars

\* C10: with three integers on the main stack, | takes the top as the
\* modulus m and the second entry as the exponent e; when e is positive and
\* m is not zero it replaces the three by n^e mod |m| for the third entry
\* n, a number from 0 to |m|-1, and the stack is two entries shorter.
C10_TopIsModulus ==
    [][(Dispatches("|") /\ ThreeIntegers /\ Whole(2) > 0 /\ Whole(1) # 0)
          => /\ Len(Stack') = Len(Stack) - 2
             /\ SubSeq(Stack', 1, Len(Stack) - 3) = SubSeq(Stack, 1, Len(Stack) - 3)
             /\ IsInt(heap'[Peek(Stack')], ExpMod(Whole(3), Whole(2), Whole(1)))
             /\ err' = "nil"]_vars

C10_Witness ==
    /\ \E p \in Precisions : program = ModExponentProgram(p, 2, 3, 3)
    /\ status = "eof"
    /\ StackIs(<<2>>)

(***************************************************************************)
(* Quotient and remainder                                                  *)
(***************************************************************************)
\* ~ is about to be applied to two integers, the divisor on top not zero
DividesIntegers ==
    /\ Dispatches("~")
    /\ Len(Stack) >= 2
    /\ BothNumbers(heap, Peek(Stack), Peek(Pop(Stack)))
    /\ heap[Peek(Stack)].precision = 0
    /\ heap[Peek(Pop(Stack))].precision = 0
    /\ heap[Peek(Stack)].intval # 0

\* the two entries ~ leaves in place of its operands are beneath and top
QuotientRemainderLeft(beneath, top) ==
    /\ Len(Stack') = Len(Stack)
    /\ SubSeq(Stack', 1, Len(Stack) - 2) = SubSeq(Stack, 1, Len(Stack) - 2)
    /\ IsInt(heap'[Peek(Pop(Stack'))], beneath)
    /\ IsInt(heap'[Peek(Stack')], top)

PositiveInteger(v) ==
    v.intval > 0 /\ v.intval % precisionToFactor(v.precision) = 0

\* C12: ^ applied to two numbers with a positive integer e on top replaces
\* them by left^e (cut to the fractional digits of left); with an exponent that is zero, negative or not whole it
\* returns whole-exponents-only and leaves both operands as they were.
C12_WholeExponentsOnly ==
    [][(Dispatches("^") /\ Len(Stack) >= 2
          /\ BothNumbers(heap, Peek(Stack), Peek(Pop(Stack))))
         => LET left == heap[Peek(Pop(Stack))]
                right == heap[Peek(Stack)]
                e == right.intval \div precisionToFactor(right.precision)
            IN IF PositiveInteger(right)
               THEN /\ err' = "nil"
                    /\ Len(Stack') = Len(Stack) - 1
                    /\ heap'[Peek(Stack')] =
                           NumberValue(EDiv(Pow(left.intval, e),
                                            precisionToFactor(left.precision * (e - 1))),
                                       left.precision)
               ELSE /\ err' = "ErrWholeExponentsOnly"
                    /\ Len(Stack') = Len(Stack)
                    /\ \A k \in 1..Len(Stack) :
                           SameValue(heap'[Stack'[k]], heap[Stack[k]])]_vars

\* C13: v applied to a number x >= 0 leaves a value that p renders, at the
\* precision p in force, as the square root of x cut to p fractional digits;
\* applied to x < 0 it returns no-imaginary-numbers and leaves x on the stack.
C13_SqrtHonoursPrecision ==
    [][(Dispatches("v") /\ Stack # <<>> /\ heap[Peek(Stack)].Type = "VTNumber")
         => LET x == heap[Peek(Stack)]
                scaled == (x.intval * precisionToFactor(2 * Precision))
                              \div precisionToFactor(x.precision)
            IN IF x.intval >= 0
               THEN /\ err' = "nil"
                    /\ Len(Stack') = Len(Stack)
                    /\ RenderedAt(heap', Peek(Stack'), Precision)
                           = Rendering(ISqrt(scaled), precisionToFactor(Precision),
                                       10, Precision)
               ELSE /\ err' = "ErrNoImaginaryNumbers"
                    /\ Len(Stack') = Len(Stack)
                    /\ SameValue(heap'[Peek(Stack')], x)]_vars

(***************************************************************************)
(* Printing and literals                                                   *)
(***************************************************************************)
\* C14: p writes the number on top of the stack in the output radix with the
\* precision in force: a - only when it is negative, the integer part of its
\* magnitude with the digits 0..9 A..F, and for a precision p > 0 a point and
\* exactly p fractional digits, cut and never rounded; then a newline.
C14_PrintsInOutputRadix ==
    [][(Dispatches("p") /\ Stack # <<>> /\ heap[Peek(Stack)].Type = "VTNumber")
         => LET v == heap[Peek(Stack)]
            IN output' = output
                           \o Rendering(v.intval, precisionToFactor(v.precision),
                                        OutputRadix, Precision)
                           \o <<"\n">>]_vars

\* C15: with both radices 10 and precision 0, the digits of an integer N (or
\* _N) followed by p print the decimal numeral of N, without leading zeroes,
\* and leave N on top of the main stack.
C15_IntegerLiteralsRoundTrip ==
    (status = "eof" /\ program \in IntegerPrograms)
        => \A l \in IntegerLiterals :
               program = IntegerProgram(l)
                   => /\ output = Rendering(LiteralNumerator(l, 10), 1, 10, 0) \o <<"\n">>
                      /\ StackIs(<<LiteralNumerator(l, 10)>>)

C15_Witness ==
    /\ program = IntegerProgram(<<"_", "0", "3">>)
    /\ status = "eof"
    /\ output = <<"-", "3", "\n">>
    /\ StackIs(<<-3>>)

\* C16: a literal _? (digit+ ('.' digit*)? | '.' digit+) over 0-9 A-H ended
\* by a non-digit rune pushes exactly one Number, whose value is the integer
\* digits plus the fractional digits times r^(-k) in the input radix r,
\* negated after _; no error is returned while it is read.
C16_LiteralsPushTheirValue ==
    program \in LiteralPrograms
        => /\ err = "nil"
           /\ status = "eof"
                  => \A p \in Precisions : \A r \in Radices : \A l \in Literals :
                         program = LiteralProgram(p, r, l)
                             => /\ Len(Stack) = 1
                                /\ heap[Stack[1]].Type = "VTNumber"
                                /\ heap[Stack[1]].intval * Pow(r, Len(FractionDigits(l)))
                                       = LiteralNumerator(l, r)
                                             * precisionToFactor(heap[Stack[1]].precision)

(***************************************************************************)
(* Registers                                                               *)
(***************************************************************************)
\* the register operation op has consumed its own rune and waits for the
\* register name
AwaitsName(op) == status = "running" /\ CurrentOperation = op /\ State[op]

C17_Step ==
    \A x \in RegisterNames :
        (AwaitsName("MoveToRegisterOperation") /\ Rune = x)
            => IF Stack # <<>>
               THEN /\ err' = "nil"
                    /\ Stack' = Pop(Stack)
                    /\ Registers' = [Registers EXCEPT ![x] = <<Peek(Stack)>>]
                    /\ heap' = heap
               ELSE /\ err' = "ErrStackTooShort"
                    /\ Stack' = Stack
                    /\ Registers' = Registers
                    /\ heap' = heap

\* C17: s x with a non-empty main stack pops the top value and leaves
\* register x holding exactly that value, whatever x held before; the rest of
\* the main stack and every other register are unchanged.  With an empty main
\* stack it returns stack-too-short and every register is unchanged.
C17_SaveReplacesRegister == [][C17_Step]_vars

C17_Witness ==
    /\ program = RegisterProgram(<<"S", "a">>, <<"S", "a">>, <<"s", "a">>, <<"4", " ">>)
    /\ status = "eof"
    /\ Len(Registers["a"]) = 1
    /\ IsInt(heap[Registers["a"][1]], 1)
    /\ StackIs(<<4>>)

C18_Push ==
    \A x \in RegisterNames :
        (AwaitsName("MoveToRegisterStackOperation") /\ Rune = x /\ Stack # <<>>)
            => /\ err' = "nil"
               /\ Stack' = Pop(Stack)
               /\ Registers' = [Registers EXCEPT ![x] = Append(@, Peek(Stack))]
               /\ heap' = heap

C18_Pop ==
    \A x \in RegisterNames :
        (AwaitsName("MoveFromRegisterStackOperation") /\ Rune = x)
            => IF Registers[x] # <<>>
               THEN /\ err' = "nil"
                    /\ Stack' = Append(Stack, Registers[x][Len(Registers[x])])
                    /\ Registers' = [Registers EXCEPT ![x] = SubSeq(@, 1, Len(@) - 1)]
                    /\ heap' = heap
               ELSE /\ err' = "ErrStackTooShort"
                    /\ Stack' = Stack
                    /\ Registers' = Registers
                    /\ heap' = heap

\* C18: every register is a stack of its own: S x puts the top of the main
\* stack on top of register x and keeps what x held, L x moves the value last
\* put on x and not yet taken back to the main stack, neither changes another
\* register, and L x on an empty register returns stack-too-short and changes
\* neither the main stack nor a register.
C18_RegistersAreStacks == [][C18_Push /\ C18_Pop]_vars

C18_Witness ==
    /\ program = RegisterProgram(<<"S", "a">>, <<"S", "b">>, <<"S", "a">>, <<"L", "a">>)
    /\ status = "eof"
    /\ StackIs(<<1>>)
    /\ Len(Registers["a"]) = 1
    /\ IsInt(heap[Registers["a"][1]], 3)
    /\ Len(Registers["b"]) = 1
    /\ IsInt(heap[Registers["b"][1]], 2)

(***************************************************************************)
(* Settings and missing operands                                           *)
(***************************************************************************)
\* the setting that K, I or O asks for
Setting(r) ==
    CASE r = "K" -> Precision
      [] r = "I" -> InputRadix
      [] r = "O" -> OutputRadix

\* the Interpreter's fields that hold values and settings are unchanged
SameInterpreter ==
    /\ Stack' = Stack
    /\ Registers' = Registers
    /\ heap' = heap
    /\ Precision' = Precision
    /\ InputRadix' = InputRadix
    /\ OutputRadix' = OutputRadix
    /\ QuitLevel' = QuitLevel
    /\ output' = output

\* C19: each of K, I and O pushes the precision, the input radix, the output
\* radix as a Number and changes nothing else: the main stack is one entry
\* longer, its top is the setting, and after n k K the top is n.
C19_SettingsArePushed ==
    [][\A r \in SettingRunes :
         Dispatches(r)
             => /\ Len(Stack') = Len(Stack) + 1
                /\ SubSeq(Stack', 1, Len(Stack)) = Stack
                /\ IsInt(heap'[Peek(Stack')], Setting(r))
                /\ SubSeq(heap', 1, Len(heap)) = heap
                /\ Registers' = Registers
                /\ Precision' = Precision
                /\ InputRadix' = InputRadix
                /\ OutputRadix' = OutputRadix
                /\ output' = output]_vars

\* the command c is about to be applied: a one-rune command is looked up in
\* the table, s and S are given the register name
Applies(c) ==
    IF Len(c) = 1 THEN Dispatches(c[1])
    ELSE AwaitsName(Operations(c[1])) /\ Rune = c[2]

\* C20: a command applied to a main stack holding fewer values than it needs
\* returns stack-too-short, changes neither the stacks nor the settings nor
\* the output, and the interpreter goes on running.
C20_MissingOperandsAreReported ==
    [][\A c \in DOMAIN Needs :
         (Applies(c) /\ Len(Stack) < Needs[c])
             => /\ err' = "ErrStackTooShort"
                /\ status' = "running"
                /\ SameInterpreter]_vars

(***************************************************************************)
(* Errors                                                                  *)
(***************************************************************************)
\* the errors an operation returns, other than the request to exit
Failed(e) == e \notin {"nil", "ErrExitRequested", "panic"}

\* the main stack holds the same entries with the same values after the step
StackRestored ==
    /\ Stack' = Stack
    /\ \A k \in 1..Len(Stack) : SameValue(heap'[Stack[k]], heap[Stack[k]])

\* C21: an operation that returns an error other than exit-requested leaves
\* the main stack as it was before the operation, also k applied to a String
\* and a conditional applied to operands that are not both numbers.
C21_ErrorsRestoreTheStack ==
    [][(status = "running" /\ CurrentOperation # "NumberBuilderOperation"
          /\ Failed(err'))
         => StackRestored]_vars

\* the entry at the k-th place from the top of the main stack
Entry(k) == heap[Stack[Len(Stack) + 1 - k]]

\* | must fail: an operand is a String, the exponent (the second entry) is
\* not a positive integer, or the modulus (the top) is zero
ModExponentMustFail ==
    \/ \E k \in 1..3 : Entry(k).Type # "VTNumber"
    \/ ~PositiveInteger(Entry(2))
    \/ Entry(1).intval = 0

\* C22: | returns an error whenever an operand is a String, the exponent is
\* not a positive integer or the modulus is zero, and whenever it returns an
\* error the three operands are on the main stack as before, in the same
\* order and with the same values.
C22_ModExponentFailuresRestore ==
    [][(Dispatches("|") /\ Len(Stack) >= 3)
         => /\ ModExponentMustFail => Failed(err')
            /\ err' # "nil" => StackRestored]_vars

\* a rune of the innermost macro returns an error other than
\* exit-requested: every frame is gone, so that no later rune of any macro is
\* interpreted, the input is where it was, and the main loop gets that error
C23_Step ==
    (status = "running" /\ frames # <<>>
       /\ frames[Len(frames)].pc <= Len(frames[Len(frames)].macro))
        => LET res == Interpret(Self, Rune)
           IN (~res.call /\ Failed(res.err))
                  => /\ frames' = <<>>
                     /\ err' = res.err
                     /\ ip' = ip
                     /\ status' = "running"

\* in a program whose frames push 0 or their labels if they go on after the
\* failing command, only the 9 of the top level is pushed
C23_Final ==
    (program \in FailingMacroPrograms /\ status = "eof") => StackIs(<<9>>)

\* C23: an error other than exit-requested returned for a rune of a macro
\* ends that macro and every enclosing one: no later rune of any of them is
\* interpreted, and the top-level Interpret that started the macro returns
\* the same error to the main loop.
C23_ErrorAbortsMacros == []C23_Final /\ [][C23_Step]_vars

C23_Witness ==
    /\ program = QuitProgram(3, <<"+">>)
    /\ status = "running"
    /\ frames = <<>>
    /\ err = "ErrStackTooShort"
    /\ Stack = <<>>
    /\ ip = Len(program) - 1

(***************************************************************************)
(* The settings                                                            *)
(***************************************************************************)
\* C24: in every reachable state both radices are integers from 2 to 16;
\* i and o applied to a number outside that range leave the radix in range.
C24_RadicesInRange == InputRadix \in 2..16 /\ OutputRadix \in 2..16

C24_Witness ==
    /\ program = RadixProgram(17, "i")
    /\ status = "eof"
    /\ InputRadix = 10
    /\ StackIs(<<10, 10>>)

\* C25: in every reachable state, also after k applied to a negative number,
\* the precision is a non-negative integer.
C25_PrecisionNonNegative == Precision \in Nat

\* C26: in every reachable state and at every macro nesting depth, also
\* after Q applied to a negative number, to 0, to a String, to an empty stack
\* or to a number larger than the nesting depth, QuitLevel is a non-negative
\* integer.
C26_QuitLevelNonNegative == QuitLevel \in Nat

(***************************************************************************)
(* Exactness                                                               *)
(***************************************************************************)
\* the number v is the decimal literal l
IsLiteral(v, l) ==
    /\ v.Type = "VTNumber"
    /\ v.intval * precisionToFactor(Len(FractionDigits(l)))
           = LiteralNumerator(l, 10) * precisionToFactor(v.precision)

\* C27: stored numbers are exact at every display precision: a b / b * and
\* a b + b - with b not zero leave on the main stack one value equal to a.
C27_StoredNumbersExact ==
    (status = "eof" /\ program \in RoundTripPrograms)
        => \A p \in Precisions : \A a \in Operands \cup Fractions :
           \A b \in Operands \cup Fractions : \A ops \in RoundTrips :
               program = RoundTripProgram(p, a, b, ops)
                   => Len(Stack) = 1 /\ IsLiteral(heap[Stack[1]], a)

(***************************************************************************)
(* Macros and top-level input                                              *)
(***************************************************************************)
\* the macro of a program [m]x
MacroOf(prog) == SubSeq(prog, 2, Len(prog) - 2)

\* the state in which x has popped the macro m and is about to run it
BeforeMacro(m) ==
    [Feed(NewInterpreter, <<"[">> \o m \o <<"]">>).st EXCEPT !.Stack = <<>>]

\* the runes of m and a space given to the top-level dispatcher from that
\* state, up to the first error
AsInput(m) == Feed(BeforeMacro(m), m \o <<" ">>).st

\* C28: a macro without q and Q executed with x leaves the main stack, the
\* registers, the precision, the radices, the output and the pending
\* operation as its runes followed by a space leave them when they are given
\* to the top-level dispatcher from the same state, both stopping at the
\* first error.
C28_MacroIsTopLevelInput ==
    (status = "eof" /\ program \in MacroPrograms)
        => LET top == AsInput(MacroOf(program))
           IN /\ Stack = top.Stack
              /\ heap = top.heap
              /\ Registers = top.Registers
              /\ Precision = top.Precision
              /\ InputRadix = top.InputRadix
              /\ OutputRadix = top.OutputRadix
              /\ output = top.output
              /\ CurrentOperation = top.CurrentOperation

(***************************************************************************)
(* Register names                                                          *)
(***************************************************************************)
C29_Step ==
    \A op \in RegisterOperations :
        (AwaitsName(op) /\ Rune \notin RegisterNames \cup {"EOF"})
            => /\ Interpret(Self, Rune).err = "ErrNotARegisterName"
               /\ Stack' = Stack
               /\ Registers' = Registers
               /\ heap' = heap
               /\ output' = output
               /\ NumberBuilderOperation' = NumberBuilderOperation
               /\ StringBuilderOperation' = StringBuilderOperation
               /\ CurrentOperation' = "nil"
               /\ ~State'[op]

\* C29: the rune after s, l, S or L is taken as the register name whatever
\* it is.  If it is not one of a..z the operation returns
\* not-a-register-name, the main stack and the registers are unchanged, the
\* rune is not run as an operation of its own (no digit is collected, no
\* string is begun, nothing is printed), and no operation is pending.
C29_NameIsAlwaysConsumed == [][C29_Step]_vars

C29_Witness ==
    /\ program = NameProgram("s", "[")
    /\ ip = 5
    /\ err = "ErrNotARegisterName"
    /\ CurrentOperation = "nil"
    /\ StackIs(<<1>>)

(***************************************************************************)
(* The quit protocol                                                       *)
(***************************************************************************)
\* a rune of the innermost macro is about to be interpreted
InMacro ==
    /\ status = "running"
    /\ frames # <<>>
    /\ frames[Len(frames)].pc <= Len(frames[Len(frames)].macro)

\* the innermost frame goes on with the rune after the one just interpreted
GoesOn == frames' = [frames EXCEPT ![Len(frames)].pc = @ + 1]

\* C30 as stated: a frame that receives exit-requested from one of its runes
\* decrements QuitLevel and returns exit-requested to its caller if and only
\* if QuitLevel is still positive after the decrement; when the decrement
\* brings QuitLevel to zero the same frame goes on with its remaining runes.
C30_ReraisesIfStillPositive ==
    [][InMacro
         => LET res == Interpret(Self, Rune)
            IN (~res.call /\ res.err = "ErrExitRequested" /\ res.st.QuitLevel >= 1)
                   => /\ Len(frames') < Len(frames) <=> res.st.QuitLevel - 1 > 0
                      /\ res.st.QuitLevel - 1 = 0 => GoesOn /\ QuitLevel' = 0]_vars

\* the number of frames ended by an exit request raised in the innermost of
\* d frames with QuitLevel n: each frame that finds QuitLevel zero goes on,
\* every other one decrements it and returns
Ended(n, d) == IF n = 0 THEN 0 ELSE IF n < 0 \/ n > d THEN d ELSE n

\* C30 amended: a frame that receives exit-requested from one of its runes
\* goes on with its remaining runes when QuitLevel is zero; otherwise it
\* decrements QuitLevel and returns exit-requested to its caller, also when
\* the decrement brings QuitLevel to zero, and the caller does the same, so
\* that QuitLevel n in 1..d-1 ends the n innermost of d frames and the frame
\* that finds QuitLevel zero goes on.
C30_ReraisesUnlessZero ==
    [][InMacro
         => LET res == Interpret(Self, Rune)
                d == Len(frames)
                n == res.st.QuitLevel
            IN (~res.call /\ res.err = "ErrExitRequested")
                   => /\ QuitLevel' = n - Ended(n, d)
                      /\ err' = "ErrExitRequested"
                      /\ IF Ended(n, d) = 0 THEN GoesOn
                         ELSE frames' = SubSeq(frames, 1, d - Ended(n, d))
                      /\ status' = IF Ended(n, d) = d THEN "exited" ELSE "running"]_vars

C30_Witness ==
    /\ program = QuitProgram(3, <<"1", "Q">>)
    /\ status = "running"
    /\ Len(frames) = 2
    /\ frames[2].pc = 2
    /\ QuitLevel = 0
    /\ err = "ErrExitRequested"

(***************************************************************************)
(* The NumberBuilder                                                       *)
(***************************************************************************)
\* C31: in a run of digit runes a _ after at least one rune of the literal,
\* and a second point, end the literal, which is pushed, and begin the next
\* one: the main stack holds one entry for each literal of the run, in input
\* order, each with the value of its literal (12_34 pushes 12 then -34,
\* 12.34.56.78 pushes 12.34, .56 and .78).
C31_RunsSplitIntoLiterals ==
    (status = "eof" /\ program \in RunPrograms)
        => \A p \in 0..MaxDigits : \A run \in LiteralRuns :
               program = RunProgram(p, run)
                   => /\ Len(Stack) = Len(run)
                      /\ \A k \in 1..Len(run) : IsLiteral(heap[Stack[k]], run[k])

(***************************************************************************)
(* Quotient and remainder at every precision                               *)
(***************************************************************************)
\* an operation of two operands is about to be applied to two numbers, the
\* one on top not zero
DividesNumbers(r) ==
    /\ Dispatches(r)
    /\ Len(Stack) >= 2
    /\ BothNumbers(heap, Peek(Stack), Peek(Pop(Stack)))
    /\ heap[Peek(Stack)].intval # 0

\* q is an integer, q * b + r = a and |r| < |b|, for numbers given as Values
IsQuotientRemainder(q, r, a, b) ==
    /\ q.intval % precisionToFactor(q.precision) = 0
    /\ q.intval * b.intval * precisionToFactor(r.precision + a.precision)
         + r.intval * precisionToFactor(q.precision + b.precision + a.precision)
           = a.intval * precisionToFactor(q.precision + b.precision + r.precision)
    /\ Abs(r.intval) * precisionToFactor(b.precision)
           < Abs(b.intval) * precisionToFactor(r.precision)

\* the remainder of a by b with the quotient cut towards zero
Remainder(a, b) ==
    LET p == IF a.precision > b.precision THEN a.precision ELSE b.precision
        x == a.intval * precisionToFactor(p - a.precision)
        y == b.intval * precisionToFactor(p - b.precision)
    IN NumberValue(TRem(x, y), p)

\* C32: for numbers a and b, b on top and not zero, at every precision, the
\* quotient q and the remainder r that ~ leaves are such that q is an
\* integer, q * b + r = a and |r| < |b|; and % leaves exactly that r.
C32_QuotientTimesDivisorPlusRemainder ==
    [][LET a == heap[Peek(Pop(Stack))]
           b == heap[Peek(Stack)]
       IN /\ DividesNumbers("~")
               => /\ Len(Stack') = Len(Stack)
                  /\ IsQuotientRemainder(heap'[Peek(Stack')], heap'[Peek(Pop(Stack'))],
                                         a, b)
                  /\ SameValue(heap'[Peek(Pop(Stack'))], Remainder(a, b))
          /\ DividesNumbers("%")
               => /\ Len(Stack') = Len(Stack) - 1
                  /\ SameValue(heap'[Peek(Stack')], Remainder(a, b))]_vars

(***************************************************************************)
(* Printing                                                                *)
(***************************************************************************)
\* the main-stack entries that the print command r writes
Printed(r) == IF r = "p" THEN {Len(Stack)} ELSE 1..Len(Stack)

\* the Value that is handed to fmt for the entry k: the copy of it, brought
\* to the precision in force
Copy(k) == UpdatePrecision(heap, Stack[k], Precision)[Stack[k]]

\* C33: p and f leave on the main stack the same values, of the same type
\* and sign and in the same order, whatever the stack holds and whatever the
\* precision, and rendering a value to text does not modify that value.
C33_PrintingKeepsValues ==
    [][\A r \in {"p", "f"} :
         (Dispatches(r) /\ (r = "p" => Stack # <<>>))
             => /\ Stack' = Stack
                /\ \A k \in 1..Len(Stack) : heap'[Stack[k]] = heap[Stack[k]]
                /\ \A k \in Printed(r) : TextReceiver(Copy(k), 10) = Copy(k)]_vars

\* the line that is written for the entry k of the main stack
Line(k) == RenderedAt(heap, Stack[k], Precision) \o <<"\n">>

RECURSIVE LinesDownFrom(_)
\* the lines of the entries k, k - 1, ..., 1 in that order
LinesDownFrom(k) == IF k = 0 THEN <<>> ELSE Line(k) \o LinesDownFrom(k - 1)

\* C34: f writes exactly one line for each entry of the main stack, the line
\* of the top first and the line of the bottom last, and writes nothing
\* when the stack is empty.
C34_ListsTopDown ==
    [][Dispatches("f")
           => /\ output' = output \o LinesDownFrom(Len(Stack))
              /\ (Stack = <<>> => output' = output)]_vars

\* three different entries have been listed
C34_Witness ==
    /\ program = ListingProgram(1, <<"1", " ", "_", "2", " ", "[", "s", "]", " ">>)
    /\ status = "eof"
    /\ Len(Stack) = 3
    /\ output = <<"s", "\n", "-", "2", ".", "0", "\n", "1", ".", "0", "\n">>

(***************************************************************************)
(* Conditional operators inside macros                                     *)
(***************************************************************************)
\* the interpreter as it is now, with the operators of < > = not waiting, as
\* they are at top level
AtTopLevel == [Self EXCEPT !.State = NewInterpreter.State]

\* C35: a conditional operator rune that is looked up inside a macro, a
\* macro started by the same conditional operator included, behaves as at
\* top level: it raises no error, leaves the main stack alone and waits for
\* its register-name rune, and with that rune it compares and runs or skips
\* the named macro as it would at top level.
C35_ConditionalsAreReentrant ==
    [][\A c \in ConditionalRunes :
         (Dispatches(c) /\ frames # <<>>)
             => /\ status' = "running"
                /\ CurrentOperation' = Operations(c)
                /\ Stack' = Stack
                /\ \A x \in {"a", "b"} :
                       LET here == Feed(Self, <<c, x>>)
                           top == Feed(AtTopLevel, <<c, x>>)
                       IN /\ here.err = top.err
                          /\ here.call = top.call
                          /\ here.macro = top.macro
                          /\ here.st.Stack = top.st.Stack]_vars

(***************************************************************************)
(* The reprocess protocol                                                  *)
(***************************************************************************)
\* the operation that Interpret hands the rune r to in st, "none" if none
Handler(st, r) ==
    IF st.CurrentOperation # "nil" THEN st.CurrentOperation ELSE Operations(r)

\* the operation op returns ErrContinueProcessingRune for the rune r in st
AsksAgain(st, op, r) ==
    op # "none" /\ Operate(st, op, r).err = "ErrContinueProcessingRune"

\* C36: whatever rune is interpreted next, an operation that returns
\* ErrContinueProcessingRune also reports that it has finished, so that the
\* panic of Interpret cannot happen; the operation that the rune is then
\* handed to does not return ErrContinueProcessingRune again, so that the
\* rune is handed over again at most once; and Interpret never returns
\* ErrContinueProcessingRune.
C36_ReprocessIsWellFormed ==
    /\ err # "ErrContinueProcessingRune"
    /\ status = "running"
           => \A r \in {Rune} \ {"EOF"} :
                  LET op == Handler(Self, r)
                  IN /\ AsksAgain(Self, op, r)
                         => LET res == Operate(Self, op, r)
                                again == [res.st EXCEPT !.CurrentOperation = "nil"]
                            IN /\ res.finished
                               /\ ~AsksAgain(again, Handler(again, r), r)
                     /\ Interpret(Self, r).err # "ErrContinueProcessingRune"

\* a second point has ended the literal 3. and has then begun a literal of
\* its own
C36_Witness ==
    /\ program = RunProgram(0, <<<<"3", ".">>, <<".", "7">>>>)
    /\ status = "running"
    /\ Len(Stack) = 1
    /\ IsInt(heap[Peek(Stack)], 3)
    /\ CurrentOperation = "NumberBuilderOperation"
    /\ NumberBuilderOperation.buff = <<".">>

(***************************************************************************)
(* The dispatcher and the operation objects                                *)
(***************************************************************************)
\* the register operations, the conditional operators and the ! prefix with
\* its inner operation are in their initial state, not waiting for a rune
NoneWaiting ==
    /\ \A op \in RegisterOperations \cup MacroOperations : ~State[op]
    /\ ExecuteMacroNegativeOperation = [State |-> FALSE, Op |-> NoOp]

\* the operation that the next rune is handed to reports that it has
\* finished if it returns an error
ErrorsFinish ==
    \A r \in {Rune} \ {"EOF"} :
        LET op == Handler(Self, r)
        IN op # "none"
               => LET res == Operate(Self, op, r)
                  IN res.err # "nil" => res.finished

\* C37: between two top-level runes, whenever CurrentOperation is nil every
\* multi-rune operation is in its initial state, not waiting; and every
\* operation that returns an error also reports that it has finished, so
\* that no operation is left pending after an error.
C37_DispatcherAndOperationsAgree ==
    /\ (status = "running" /\ frames = <<>> /\ CurrentOperation = "nil") => NoneWaiting
    /\ status = "running" => ErrorsFinish

(***************************************************************************)
(* The end of a literal                                                    *)
(***************************************************************************)
\* the NumberBuilder is collecting a literal and the next rune ends it
EndsLiteral ==
    /\ status = "running"
    /\ CurrentOperation = "NumberBuilderOperation"
    /\ \/ ~isDigit(Rune)
       \/ Rune = "_"
       \/ Rune = "." /\ NumberBuilderOperation.dotSeen

\* the interpreter once the literal is ended: the number is on the main
\* stack if the text parses, and the NumberBuilder is as NewInterpreter
\* leaves it
LiteralEnded ==
    LET f == Flush(Self)
        after == IF f.err = "nil" THEN f.st ELSE Self
    IN [after EXCEPT !.CurrentOperation = "nil",
                     !.NumberBuilderOperation = NewInterpreter.NumberBuilderOperation]

\* C38: whenever a rune ends a literal, whether its text parses or not, the
\* NumberBuilder goes back to its initial state (not hungry, empty buffer,
\* no sign, no point seen) and the rune that ended the literal is
\* interpreted as a new operation from there, so that a literal that fails
\* changes neither the sign nor the digits of the next one.
C38_EveryLiteralEndResets ==
    EndsLiteral
        => LET got == Interpret(Self, Rune)
               want == Interpret(LiteralEnded, Rune)
           IN /\ got.st.NumberBuilderOperation = want.st.NumberBuilderOperation
              /\ got.st.CurrentOperation = want.st.CurrentOperation
              /\ got.st.Stack = want.st.Stack
              /\ got.st.heap = want.st.heap
              /\ got.st.output = want.st.output
              /\ got.call = want.call

====
